---- MODULE Spec2Model ----
(***************************************************************************)
(* State-machine model of the signpost crate (signpost/src/lib.rs and the  *)
(* helper macros): the process-wide configuration cell, the lazily created *)
(* global logger, OsLog's once-initialised native handle, the emission     *)
(* primitive, interval guards, the tracing layer of tracing_subscriber.rs,  *)
(* and the native facility they call into.                                 *)
(* Every step that touches shared state (a OnceLock, a Once, the native    *)
(* facility) is one action, so calls made by different threads interleave  *)
(* at exactly those places.                                                *)
(***************************************************************************)
EXTENDS Integers, Sequences, FiniteSets, TLC

VARIABLES
    GLOBAL_CONFIG,   \* OnceLock<(String, &CStr)>: [st, val]
    GLOBAL_LOGGER,   \* OnceLock<OsLog>: [st, val] (val: index into logs, 0 = empty)
    logs,            \* the OsLog instances constructed so far
    native,          \* the native facility: handles created, ids handed out, enabled
    emissions,       \* calls of _os_signpost_emit_with_name_impl, in order
    guards,          \* the SignpostInterval values created so far
    intervals,       \* TracingSubscriber.intervals: DashMap<Id, ActiveInterval>
    spans,           \* the tracing framework: the state of each span id
    futures,         \* the futures of #[signpost] async functions, by name
    th,              \* per thread: the call in progress and its locals
    nOps             \* calls started so far (bounded by MaxOps)

vars == <<GLOBAL_CONFIG, GLOBAL_LOGGER, logs, native, emissions, guards, intervals, spans,
          futures, th, nOps>>

----------------------------------------------------------------------------
\* Bounds of the model.
MaxOps == 3

Threads == {"t1", "t2"}

----------------------------------------------------------------------------
\* Strings are sequences of characters; NUL is the zero byte.
NUL == "NUL"

HasNul(s) == \E i \in DOMAIN s : s[i] = NUL

\* Option<T>: <<>> is None, <<x>> is Some(x).
None == <<>>
Some(x) == <<x>>

\* std::ffi::CString::new(s): Err when s holds an interior zero byte.
CString_new(s) == IF HasNul(s) THEN [ok |-> FALSE, v |-> <<>>] ELSE [ok |-> TRUE, v |-> s]

\* An unwrap_or_default whose default is a one-character placeholder.
unwrap_or_placeholder(r) == IF r.ok THEN r.v ELSE <<"?">>

\* Result::unwrap_or_default on a CString: the empty string on Err.
unwrap_or_default(r) == IF r.ok THEN r.v ELSE <<>>

\* format!("{}::{}", a, b)
format(a, b) == a \o <<":", ":">> \o b

\* Inputs.
POINTS_OF_INTEREST == "PointsOfInterest"
DYNAMIC_TRACING == "DynamicTracing"
ConfigInputs == { <<(<<"a">>), POINTS_OF_INTEREST>>,
                  <<(<<"b">>), DYNAMIC_TRACING>>,
                  <<(<<"a", NUL>>), POINTS_OF_INTEREST>> }
Paths == { <<"f">> }
\* The label of a helper call without a message, and the (label, message)
\* pairs of one with a message: each string either converts to a C string
\* or holds a zero byte and does not.
Labels == { <<"A">> }
Labelled == { <<(<<"A">>), (<<"m">>)>>, <<(<<"A", NUL>>), (<<"m">>)>>, <<(<<"A">>), (<<NUL, "m">>)>> }

----------------------------------------------------------------------------
\* A u64 is kept as four 16-bit limbs, most significant first.
LimbMax == 65535
U64(n) == <<0, 0, 0, n>>
OS_SIGNPOST_ID_NULL == <<0, 0, 0, 0>>
OS_SIGNPOST_ID_INVALID == <<LimbMax, LimbMax, LimbMax, LimbMax>>
RawInputs == { OS_SIGNPOST_ID_NULL, U64(1), <<1, 0, LimbMax, 2>>,
               <<LimbMax, LimbMax, LimbMax, LimbMax - 1>>, OS_SIGNPOST_ID_INVALID }
Pointers == { 4096 }
\* The span ids (tracing::Id) the framework hands to the layer.
SpanIds == { "s1", "s2" }
FutureIds == { "fut1" }
\* A future of an instrumented async fn before the call that creates it.
NoFuture ==
    [ fn |-> [module_path |-> <<>>, fn_name |-> <<>>, message |-> <<>>], st |-> "none",
      outcome |-> "none", polls |-> <<>>, dropper |-> "none" ]

\* SignpostId(u64): a one-field tuple struct.
SignpostId(v) == [raw |-> v]
NoId == [raw |-> <<>>]

\* SignpostType and the native os_signpost_type_t values.
SIGNPOST_TYPE_EVENT == 0
SIGNPOST_TYPE_INTERVAL_BEGIN == 1
SIGNPOST_TYPE_INTERVAL_END == 2
Event == "Event"
IntervalBegin == "IntervalBegin"
IntervalEnd == "IntervalEnd"

\* Matching scopes a native log handle can have.
Scopes == { "process", "system" }

----------------------------------------------------------------------------
\* A thread's locals. k is the continuation: the steps left of the call in
\* progress, the head being the next one; <<>> when the thread is idle.
\* on records, for a call of an event helper, that tracing has been enabled
\* at every moment of the call. For a callback of the tracing layer, span is
\* the span id it was called with and chk the answer its own enabled check got.
\* arg keeps what the call was made with; made records, for a direct emit
\* call, that the call created the native handle of its logger. held is the
\* stack of the guards bound to locals of the scopes the thread is inside,
\* the innermost last; it outlives the single calls.
IdleThread ==
    [ k |-> <<>>, op |-> "none", call |-> 0, log |-> 0, h |-> 0, id |-> NoId,
      name |-> <<>>, msg |-> None, kind |-> Event, g |-> 0, en |-> FALSE,
      on |-> FALSE, span |-> "none", chk |-> FALSE, made |-> FALSE, arg |-> <<>>,
      held |-> <<>>,
      res |-> "none", val |-> <<>> ]

Idle(t) == th[t].k = <<>>
At(t, l) == th[t].k # <<>> /\ Head(th[t].k) = l

\* The call returns or panics: the locals are dropped; the outcome is kept in
\* res and val, and en keeps the answer of the call's last enabled query.
Return(t, r, v) ==
    [th EXCEPT ![t] = [IdleThread EXCEPT !.op = th[t].op, !.call = th[t].call,
                                         !.on = th[t].on, !.chk = th[t].chk,
                                         !.arg = th[t].arg, !.made = th[t].made,
                                         !.held = th[t].held,
                                         !.res = r, !.val = v]]
Panic(t, why) == Return(t, why, <<>>)

PanicAlreadyConfigured == "panic: Signpost already configured"
PanicNotConfigured == "panic: Double Signpost config initialization"
PanicNulSubsystem == "panic: called Result::unwrap() on an Err value: NulError"
PanicOncePoisoned == "panic: Once instance has previously been poisoned"

Init ==
    /\ GLOBAL_CONFIG = [st |-> "uninit", val |-> <<>>]
    /\ GLOBAL_LOGGER = [st |-> "uninit", val |-> 0]
    /\ logs = <<>>
    /\ native \in { [handles |-> <<>>, nextId |-> 1, enabled |-> e] : e \in BOOLEAN }
    /\ emissions = <<>>
    /\ guards = <<>>
    /\ intervals = <<>>
    /\ spans = [s \in SpanIds |-> "none"]
    /\ futures = [f \in FutureIds |-> NoFuture]
    /\ th = [t \in Threads |-> IdleThread]
    /\ nOps = 0

\* A step that only reads state no later step can change is taken together
\* with the step before it: global_logger() once GLOBAL_LOGGER is complete
\* (the fast path of get_or_init) and OsLog::get once the Once is done (the
\* load of the handle). Both are reads of values that never change again, so
\* they commute with every step of every other thread.
FoldLogger(rec) ==
    IF rec.k # <<>> /\ Head(rec.k) = "global_logger" /\ GLOBAL_LOGGER.st = "complete"
    THEN [rec EXCEPT !.k = Tail(@), !.log = GLOBAL_LOGGER.val, !.val = <<GLOBAL_LOGGER.val>>]
    ELSE rec

FoldGet(rec) ==
    IF /\ rec.k # <<>> /\ Head(rec.k) = "get"
       /\ rec.log \in DOMAIN logs /\ logs[rec.log].init = "done"
    THEN [rec EXCEPT !.k = Tail(@), !.h = logs[rec.log].handle]
    ELSE rec

\* The call is over when no step is left: the locals are dropped, the result kept.
Finish(rec) ==
    IF rec.k = <<>>
    THEN [IdleThread EXCEPT !.op = rec.op, !.call = rec.call, !.res = "ok", !.val = rec.val,
                            !.en = rec.en, !.on = rec.on, !.chk = rec.chk, !.arg = rec.arg,
                            !.made = rec.made, !.held = rec.held]
    ELSE rec

Resume(rec) == Finish(FoldGet(FoldLogger(rec)))

\* A thread starts a call: its program is the sequence of the call's steps.
\* A call is named by its thread and its number on that thread.
Started(t, op, prog) ==
    [IdleThread EXCEPT !.k = prog, !.op = op, !.call = th[t].call + 1, !.held = th[t].held,
                       !.on = native.enabled /\ op \in {"event", "event_with_message"}]

Start(t, rec) == [th EXCEPT ![t] = Resume(rec)]

CanStart(t) == Idle(t) /\ nOps < MaxOps

\* The step at the head of the continuation is done: go on with the rest.
Next_k(t, rec) == Resume([rec EXCEPT !.k = Tail(@)])

Skip(k, n) == SubSeq(k, n + 1, Len(k))

----------------------------------------------------------------------------
\* std::sync::OnceLock and std::sync::Once, as the crate uses them.

\* OnceLock::get: the value once initialisation has completed, else None.
OnceLock_get(cell) == IF cell.st = "complete" THEN Some(cell.val) ELSE None

\* A caller of get_or_init / set / call_once finds the initialiser running on
\* another thread: it waits until that thread is done.
OnceBlocks(st) == st = "running"

\* A cell that never runs its initialiser again after a panic in it.
OnceLockRuns_never_again(st) == st = "uninit"

\* OnceLock::get_or_init and OnceLock::set run the initialiser when the cell
\* is empty; a cell whose initialiser panicked is empty again.
OnceLockRuns(st) == st \in {"uninit", "poisoned"}

\* Once::call_once panics on a Once whose closure panicked before.
OncePanics(st) == st = "poisoned"

----------------------------------------------------------------------------
\* Signpost::configure(subsystem, category)
configure(t, s, c) ==
    /\ CanStart(t)
    /\ th' = Start(t, [Started(t, "configure", <<"configure_set">>) EXCEPT !.val = <<s, c>>])
    /\ nOps' = nOps + 1
    /\ UNCHANGED <<GLOBAL_CONFIG, GLOBAL_LOGGER, logs, native, emissions, guards, intervals, spans, futures>>

\* A configure that stores without the set-once check.
configure_set_overwrites(t) ==
    /\ At(t, "configure_set")
    /\ GLOBAL_CONFIG.st # "running"
    /\ GLOBAL_CONFIG' = [GLOBAL_CONFIG EXCEPT !.st = "running"]
    /\ th' = [th EXCEPT ![t].k = <<"configure_store">>]
    /\ UNCHANGED <<GLOBAL_LOGGER, logs, native, emissions, guards, nOps, intervals, spans, futures>>

\* GLOBAL_CONFIG.set(..).expect("Signpost already configured"): the cell is
\* claimed when empty; a cell already set makes set return Err and expect panic.
configure_set(t) ==
    /\ At(t, "configure_set")
    /\ ~OnceBlocks(GLOBAL_CONFIG.st)
    /\ IF OnceLockRuns(GLOBAL_CONFIG.st)
       THEN /\ GLOBAL_CONFIG' = [GLOBAL_CONFIG EXCEPT !.st = "running"]
            /\ th' = [th EXCEPT ![t].k = <<"configure_store">>]
       ELSE /\ th' = Return(t, PanicAlreadyConfigured, th[t].val)
            /\ UNCHANGED GLOBAL_CONFIG
    /\ UNCHANGED <<GLOBAL_LOGGER, logs, native, emissions, guards, nOps, intervals, spans, futures>>

\* The claiming thread stores the pair and completes the cell; configure
\* returns the Signpost value it built.
configure_store(t) ==
    /\ At(t, "configure_store")
    /\ GLOBAL_CONFIG' = [st |-> "complete", val |-> th[t].val]
    /\ th' = Return(t, "ok", th[t].val)
    /\ UNCHANGED <<GLOBAL_LOGGER, logs, native, emissions, guards, nOps, intervals, spans, futures>>

\* OsLog::new(subsystem, category): no native call, a null handle.
OsLog_new(s, c) == [subsystem |-> s, category |-> c, handle |-> 0, init |-> "new"]

\* A global_logger that tests the cell and then initialises it, with nothing
\* to keep a second thread from doing the same.
global_logger_racy(t) ==
    /\ At(t, "global_logger")
    /\ IF GLOBAL_LOGGER.st # "complete"
       THEN /\ GLOBAL_LOGGER' = [GLOBAL_LOGGER EXCEPT !.st = "running"]
            /\ th' = [th EXCEPT ![t].k = <<"global_logger_init">> \o Tail(th[t].k)]
       ELSE /\ th' = [th EXCEPT ![t] = Next_k(t, [th[t] EXCEPT !.log = GLOBAL_LOGGER.val,
                                                               !.val = <<GLOBAL_LOGGER.val>>])]
            /\ UNCHANGED GLOBAL_LOGGER
    /\ UNCHANGED <<GLOBAL_CONFIG, logs, native, emissions, guards, nOps, intervals, spans, futures>>

\* global_logger(): GLOBAL_LOGGER.get_or_init(..). The fast path returns the
\* stored logger; an empty cell is claimed and the closure runs next.
global_logger(t) ==
    /\ At(t, "global_logger")
    /\ ~OnceBlocks(GLOBAL_LOGGER.st)
    /\ IF OnceLockRuns(GLOBAL_LOGGER.st)
       THEN /\ GLOBAL_LOGGER' = [GLOBAL_LOGGER EXCEPT !.st = "running"]
            /\ th' = [th EXCEPT ![t].k = <<"global_logger_init">> \o Tail(th[t].k)]
       ELSE /\ th' = [th EXCEPT ![t] = Next_k(t, [th[t] EXCEPT !.log = GLOBAL_LOGGER.val,
                                                               !.val = <<GLOBAL_LOGGER.val>>])]
            /\ UNCHANGED GLOBAL_LOGGER
    /\ UNCHANGED <<GLOBAL_CONFIG, logs, native, emissions, guards, nOps, intervals, spans, futures>>

\* A closure that falls back to a default logger when nothing is configured.
global_logger_init_default(t) ==
    /\ At(t, "global_logger_init")
    /\ LET cfg == OnceLock_get(GLOBAL_CONFIG)
           new == IF cfg # None THEN OsLog_new(cfg[1][1], cfg[1][2])
                  ELSE OsLog_new(<<>>, POINTS_OF_INTEREST) IN
       /\ logs' = Append(logs, new)
       /\ GLOBAL_LOGGER' = [st |-> "complete", val |-> Len(logs) + 1]
       /\ th' = [th EXCEPT ![t] = Next_k(t, [th[t] EXCEPT !.log = Len(logs) + 1,
                                                          !.val = <<Len(logs) + 1>>])]
    /\ UNCHANGED <<GLOBAL_CONFIG, native, emissions, guards, nOps, intervals, spans, futures>>

\* The closure of get_or_init: build the logger from GLOBAL_CONFIG.get(), or
\* panic when there is none, which leaves the cell empty.
global_logger_init(t) ==
    /\ At(t, "global_logger_init")
    /\ LET cfg == OnceLock_get(GLOBAL_CONFIG) IN
       IF cfg # None
       THEN /\ logs' = Append(logs, OsLog_new(cfg[1][1], cfg[1][2]))
            /\ GLOBAL_LOGGER' = [st |-> "complete", val |-> Len(logs) + 1]
            /\ th' = [th EXCEPT ![t] = Next_k(t, [th[t] EXCEPT !.log = Len(logs) + 1,
                                                               !.val = <<Len(logs) + 1>>])]
       ELSE /\ GLOBAL_LOGGER' = [GLOBAL_LOGGER EXCEPT !.st = "poisoned"]
            /\ th' = Panic(t, PanicNotConfigured)
            /\ UNCHANGED logs
    /\ UNCHANGED <<GLOBAL_CONFIG, native, emissions, guards, nOps, intervals, spans, futures>>

\* A direct call of global_logger().
call_global_logger(t) ==
    /\ CanStart(t)
    /\ th' = Start(t, Started(t, "global_logger", <<"global_logger">>))
    /\ nOps' = nOps + 1
    /\ UNCHANGED <<GLOBAL_CONFIG, GLOBAL_LOGGER, logs, native, emissions, guards, intervals, spans, futures>>

----------------------------------------------------------------------------
\* OsLog::get: self.init.call_once(..) and then self.handle.load(..).
get(t) ==
    /\ At(t, "get")
    /\ LET l == th[t].log IN
       /\ ~OnceBlocks(logs[l].init)
       /\ IF OncePanics(logs[l].init)
          THEN /\ th' = Panic(t, PanicOncePoisoned)
               /\ UNCHANGED logs
          ELSE IF logs[l].init = "new"
          THEN /\ logs' = [logs EXCEPT ![l].init = "running"]
               /\ th' = [th EXCEPT ![t].k = <<"get_init">> \o Tail(th[t].k)]
          ELSE /\ th' = [th EXCEPT ![t] = Next_k(t, [th[t] EXCEPT !.h = logs[l].handle])]
               /\ UNCHANGED logs
    /\ UNCHANGED <<GLOBAL_CONFIG, GLOBAL_LOGGER, native, emissions, guards, nOps, intervals, spans, futures>>

\* The closure of call_once: CString::new(subsystem).unwrap(), os_log_create,
\* the store of the handle; then the load that get returns.
get_init(t) ==
    /\ At(t, "get_init")
    /\ LET l == th[t].log
           subsystem_cstr == CString_new(logs[l].subsystem) IN
       IF subsystem_cstr.ok
       THEN \E sc \in Scopes :
            /\ native' = [native EXCEPT !.handles = Append(@,
                              [subsystem |-> subsystem_cstr.v, category |-> logs[l].category,
                               scope |-> sc])]
            /\ logs' = [logs EXCEPT ![l].handle = Len(native.handles) + 1, ![l].init = "done"]
            /\ th' = [th EXCEPT ![t] = Next_k(t, [th[t] EXCEPT !.h = Len(native.handles) + 1,
                                                               !.made = (th[t].op = "emit")])]
       ELSE /\ logs' = [logs EXCEPT ![l].init = "poisoned"]
            /\ th' = Panic(t, PanicNulSubsystem)
            /\ UNCHANGED native
    /\ UNCHANGED <<GLOBAL_CONFIG, GLOBAL_LOGGER, emissions, guards, nOps, intervals, spans, futures>>

----------------------------------------------------------------------------
\* The native facility.

\* The tracing consumer attaches or detaches: os_signpost_enabled changes.
\* Every guard that exists at that moment has now seen the new state, and
\* every call in progress has seen tracing disabled.
InFlight(g) ==
    \/ guards[g].st = "live"
    \/ guards[g].st = "dropping" /\ \E t \in Threads : ~Idle(t) /\ th[t].g = g

Toggle ==
    /\ native' = [native EXCEPT !.enabled = ~native.enabled]
    /\ guards' = [g \in DOMAIN guards |->
                    IF InFlight(g)
                    THEN [guards[g] EXCEPT !.sawOn = @ \/ ~native.enabled,
                                           !.sawOff = @ \/ native.enabled]
                    ELSE guards[g]]
    /\ th' = [t \in Threads |-> IF Idle(t) THEN th[t] ELSE [th[t] EXCEPT !.on = FALSE]]
    /\ UNCHANGED <<GLOBAL_CONFIG, GLOBAL_LOGGER, logs, emissions, nOps, intervals, spans, futures>>

\* os_signpost_id_generate(handle): a value no other call returns.
os_signpost_id_generate(n) == U64(n)

\* os_signpost_id_make_with_pointer(handle, ptr): the pointer mangled into an
\* id; the invalid id for a handle whose matching scope is system-wide.
os_signpost_id_make_with_pointer(h, ptr) ==
    IF h \in DOMAIN native.handles /\ native.handles[h].scope = "system"
    THEN OS_SIGNPOST_ID_INVALID ELSE U64(ptr)

\* SignpostId::generate(log): Self(os_signpost_id_generate(log.get())),
\* the step after get.
generate(t) ==
    /\ At(t, "generate")
    /\ native' = [native EXCEPT !.nextId = @ + 1]
    /\ th' = [th EXCEPT ![t] = Next_k(t, [th[t] EXCEPT
                  !.id = SignpostId(os_signpost_id_generate(native.nextId))])]
    /\ UNCHANGED <<GLOBAL_CONFIG, GLOBAL_LOGGER, logs, emissions, guards, nOps, intervals, spans, futures>>

\* OsLog::enabled(): os_signpost_enabled(handle), the step after get.
enabled(t) ==
    /\ At(t, "enabled")
    /\ th' = [th EXCEPT ![t] = Next_k(t, [th[t] EXCEPT !.en = native.enabled,
                                                       !.val = <<native.enabled>>])]
    /\ UNCHANGED <<GLOBAL_CONFIG, GLOBAL_LOGGER, logs, native, emissions, guards, nOps, intervals, spans, futures>>

----------------------------------------------------------------------------
\* OsLog::emit(id, name, message, signpost_type)

\* The steps of one emit call: self.enabled() (get, the native query and the
\* early return), then self.get() and the native emission.
emit_steps == <<"get", "emit_enabled", "get", "emit_impl">>

\* emit without its early return: the native call is made whatever
\* os_signpost_enabled answers.
emit_ignores_enabled(t) ==
    /\ At(t, "emit_enabled")
    /\ th' = [th EXCEPT ![t] = Next_k(t, [th[t] EXCEPT !.en = native.enabled])]
    /\ UNCHANGED <<GLOBAL_CONFIG, GLOBAL_LOGGER, logs, native, emissions, guards, nOps, intervals, spans, futures>>

\* emit with its test the wrong way round: it returns when the logger is
\* enabled and goes on when it is not.
emit_enabled_inverted(t) ==
    /\ At(t, "emit_enabled")
    /\ th' = [th EXCEPT ![t] =
                IF ~native.enabled
                THEN Next_k(t, [th[t] EXCEPT !.en = FALSE])
                ELSE Next_k(t, [th[t] EXCEPT !.en = TRUE, !.k = Skip(@, 2)])]
    /\ UNCHANGED <<GLOBAL_CONFIG, GLOBAL_LOGGER, logs, native, emissions, guards, nOps, intervals, spans, futures>>

\* if !self.enabled() { return; }
emit_enabled(t) ==
    /\ At(t, "emit_enabled")
    /\ th' = [th EXCEPT ![t] =
                IF native.enabled
                THEN Next_k(t, [th[t] EXCEPT !.en = TRUE])
                ELSE Next_k(t, [th[t] EXCEPT !.en = FALSE, !.k = Skip(@, 2)])]
    /\ UNCHANGED <<GLOBAL_CONFIG, GLOBAL_LOGGER, logs, native, emissions, guards, nOps, intervals, spans, futures>>

\* A match that sends IntervalEnd to the native begin type.
os_signpost_type_end_as_begin(kind) ==
    CASE kind = Event -> SIGNPOST_TYPE_EVENT
      [] kind = IntervalBegin -> SIGNPOST_TYPE_INTERVAL_BEGIN
      [] kind = IntervalEnd -> SIGNPOST_TYPE_INTERVAL_BEGIN

\* match signpost_type { .. }
os_signpost_type(kind) ==
    CASE kind = Event -> SIGNPOST_TYPE_EVENT
      [] kind = IntervalBegin -> SIGNPOST_TYPE_INTERVAL_BEGIN
      [] kind = IntervalEnd -> SIGNPOST_TYPE_INTERVAL_END

\* CString::new(name).unwrap_or_default()
name_cstr(name) == unwrap_or_default(CString_new(name))

\* message.map(|msg| CString::new(msg).unwrap_or_default()); None is passed
\* to the native call as a null pointer.
message_cstr(message) ==
    IF message = None THEN None ELSE Some(unwrap_or_default(CString_new(message[1])))

\* The guards of the scopes around the call thread t is making, the guard
\* the call itself is about left out.
Enclosing(t) == SelectSeq(th[t].held, LAMBDA g : g # th[t].g)

\* _os_signpost_emit_with_name_impl(dso, self.get(), type, id.0, name, message, buf, len)
emit_impl(t) ==
    /\ At(t, "emit_impl")
    /\ emissions' = Append(emissions,
           [ log |-> th[t].h, type |-> os_signpost_type(th[t].kind), id |-> th[t].id.raw,
             name |-> name_cstr(th[t].name), msg |-> message_cstr(th[t].msg),
             by |-> t, call |-> th[t].call, g |-> th[t].g, span |-> th[t].span,
             in |-> Enclosing(t) ])
    /\ th' = [th EXCEPT ![t] = Next_k(t, th[t])]
    /\ UNCHANGED <<GLOBAL_CONFIG, GLOBAL_LOGGER, logs, native, guards, nOps, intervals, spans, futures>>

----------------------------------------------------------------------------
\* SignpostInterval

\* The arguments start_interval hands to emit.
start_interval(g) ==
    [ id |-> guards[g].id, name |-> guards[g].name, msg |-> guards[g].message,
      kind |-> IntervalBegin ]

\* end_internal handing the start message to emit again.
end_internal_repeats_message(g) ==
    [ id |-> guards[g].id, name |-> guards[g].name, msg |-> guards[g].message,
      kind |-> IntervalEnd ]

\* end_internal emitting with the kind start_interval uses.
end_internal_as_begin(g) ==
    [ id |-> guards[g].id, name |-> guards[g].name, msg |-> None, kind |-> IntervalBegin ]

\* The arguments end_internal hands to emit: the message is not repeated.
end_internal(g) ==
    [ id |-> guards[g].id, name |-> guards[g].name, msg |-> None, kind |-> IntervalEnd ]

\* The future on whose behalf thread t runs, if any: a guard created inside
\* a future is a local of that future.
FutOf(t) == IF th[t].op \in {"poll", "drop_future"} THEN th[t].arg[1] ELSE "none"

\* The calls whose guard is bound to a local of the enclosing scope:
\* a #[signpost] function's _interval and a let _guard = interval!(..).
ScopedOps == { "signpost_fn", "let_guard" }

\* Guard g is bound to a local of a scope some thread is inside.
Held(g) == \E t \in Threads : \E i \in DOMAIN th[t].held : th[t].held[i] = g

\* SignpostInterval::new, from the native query of log.enabled() on: the
\* value is built, and start_interval runs only if the logger is enabled.
SignpostInterval_new(t) ==
    /\ At(t, "new_enabled")
    /\ guards' = Append(guards,
           [ log |-> th[t].log, id |-> th[t].id, name |-> th[t].name, message |-> th[t].msg,
             st |-> "live", exit |-> "none", by |-> t, call |-> th[t].call, fut |-> FutOf(t),
             enNew |-> native.enabled, sawOn |-> native.enabled, sawOff |-> ~native.enabled ])
    /\ th' = [th EXCEPT ![t] =
                LET rec == [th[t] EXCEPT !.g = Len(guards) + 1, !.val = <<Len(guards) + 1>>,
                                         !.en = native.enabled, !.kind = IntervalBegin,
                                         !.held = IF th[t].op \in ScopedOps
                                                  THEN Append(@, Len(guards) + 1) ELSE @]
                IN  IF native.enabled
                    THEN Next_k(t, rec)
                    ELSE Next_k(t, [rec EXCEPT !.k = Skip(@, Len(emit_steps))])]
    /\ UNCHANGED <<GLOBAL_CONFIG, GLOBAL_LOGGER, logs, native, emissions, nOps, intervals, spans, futures>>

\* The ways a guard's scope is left; each runs Drop::drop.
ExitPaths == {"scope_end", "early_return", "explicit_drop", "unwind"}

\* impl Drop for SignpostInterval: self.end_internal(). The guard's creating
\* call has returned and nothing has dropped it yet.
drop(t, g, path) ==
    /\ CanStart(t)
    /\ guards[g].st = "live" /\ guards[g].fut = "none" /\ ~Held(g)
    /\ \A u \in Threads : th[u].g # g
    /\ guards' = [guards EXCEPT ![g].st = "dropping", ![g].exit = path]
    /\ th' = Start(t, [Started(t, "drop", emit_steps) EXCEPT
                 !.log = guards[g].log, !.g = g,
                 !.id = end_internal(g).id, !.name = end_internal(g).name,
                 !.msg = end_internal(g).msg, !.kind = end_internal(g).kind])
    /\ nOps' = nOps + 1
    /\ UNCHANGED <<GLOBAL_CONFIG, GLOBAL_LOGGER, logs, native, emissions, intervals, spans, futures>>

----------------------------------------------------------------------------
\* The helper macros. function_name!() is the path of the calling function.

\* let logger = global_logger(); let id = SignpostId::generate(logger);
macro_setup == <<"global_logger", "get", "generate">>

\* event!(name)
event(t, path, name) ==
    /\ CanStart(t)
    /\ th' = Start(t, [Started(t, "event", macro_setup \o emit_steps) EXCEPT
                 !.name = format(path, name), !.msg = None, !.kind = Event])
    /\ nOps' = nOps + 1
    /\ UNCHANGED <<GLOBAL_CONFIG, GLOBAL_LOGGER, logs, native, emissions, guards, intervals, spans, futures>>

\* event_with_message!(name, message)
event_with_message(t, path, name, message) ==
    /\ CanStart(t)
    /\ th' = Start(t, [Started(t, "event_with_message", macro_setup \o emit_steps) EXCEPT
                 !.name = format(path, name), !.msg = Some(message), !.kind = Event])
    /\ nOps' = nOps + 1
    /\ UNCHANGED <<GLOBAL_CONFIG, GLOBAL_LOGGER, logs, native, emissions, guards, intervals, spans, futures>>

\* interval!(name): logger.interval(id, &full_name)
interval(t, path, name) ==
    /\ CanStart(t)
    /\ th' = Start(t, [Started(t, "interval", macro_setup \o <<"get", "new_enabled">> \o emit_steps)
                 EXCEPT !.name = format(path, name), !.msg = None])
    /\ nOps' = nOps + 1
    /\ UNCHANGED <<GLOBAL_CONFIG, GLOBAL_LOGGER, logs, native, emissions, guards, intervals, spans, futures>>

\* interval_with_message!(name, message): logger.interval_with_message(id, &full_name, message)
interval_with_message(t, path, name, message) ==
    /\ CanStart(t)
    /\ th' = Start(t, [Started(t, "interval_with_message",
                             macro_setup \o <<"get", "new_enabled">> \o emit_steps)
                 EXCEPT !.name = format(path, name), !.msg = Some(message)])
    /\ nOps' = nOps + 1
    /\ UNCHANGED <<GLOBAL_CONFIG, GLOBAL_LOGGER, logs, native, emissions, guards, intervals, spans, futures>>

----------------------------------------------------------------------------
\* SignpostId constructors and OsLog::enabled called directly.

\* A from_raw that keeps only the low 32 bits of the value.
from_raw_truncates(id) == SignpostId(<<0, 0, id[3], id[4]>>)

\* SignpostId::from_raw(id)
from_raw(id) == SignpostId(id)

\* SignpostId::raw(self)
raw(sid) == sid.raw

call_from_raw(t, x) ==
    /\ CanStart(t)
    /\ th' = Start(t, [Started(t, "from_raw", <<>>) EXCEPT !.val = <<x, raw(from_raw(x))>>])
    /\ nOps' = nOps + 1
    /\ UNCHANGED <<GLOBAL_CONFIG, GLOBAL_LOGGER, logs, native, emissions, guards, intervals, spans, futures>>

\* The value SignpostId::from_pointer returns for what the native call gave.
from_pointer_result(id) == [res |-> "Ok", val |-> <<SignpostId(id)>>]

call_from_pointer(t, ptr) ==
    /\ CanStart(t)
    /\ th' = Start(t, [Started(t, "from_pointer", <<"global_logger", "get", "from_pointer">>)
                 EXCEPT !.name = <<ptr>>])
    /\ nOps' = nOps + 1
    /\ UNCHANGED <<GLOBAL_CONFIG, GLOBAL_LOGGER, logs, native, emissions, guards, intervals, spans, futures>>

\* SignpostId::from_pointer(log, ptr), the step after get.
from_pointer(t) ==
    /\ At(t, "from_pointer")
    /\ LET r == from_pointer_result(os_signpost_id_make_with_pointer(th[t].h, th[t].name[1]))
       IN  th' = Return(t, r.res, r.val)
    /\ UNCHANGED <<GLOBAL_CONFIG, GLOBAL_LOGGER, logs, native, emissions, guards, nOps, intervals, spans, futures>>

call_enabled(t) ==
    /\ CanStart(t)
    /\ th' = Start(t, Started(t, "enabled", <<"global_logger", "get", "enabled">>))
    /\ nOps' = nOps + 1
    /\ UNCHANGED <<GLOBAL_CONFIG, GLOBAL_LOGGER, logs, native, emissions, guards, intervals, spans, futures>>

\* The inputs of direct emit calls (id, name, message, kind): names and
\* messages with and without an interior zero byte, every kind.
SignpostType == { Event, IntervalBegin, IntervalEnd }
EmitInputs ==
    { <<U64(7), (<<"A">>), None, Event>>,
      <<U64(7), (<<"A", NUL>>), None, IntervalBegin>>,
      <<(<<1, 0, LimbMax, 2>>), (<<"A">>), Some(<<"m">>), IntervalEnd>>,
      <<(<<1, 0, LimbMax, 2>>), (<<"A">>), Some(<<NUL, "m">>), IntervalBegin>>,
      <<U64(7), (<<"A", NUL>>), Some(<<NUL, "m">>), Event>> }

\* global_logger().emit(SignpostId::from_raw(x), name, message, signpost_type):
\* emit as event, event_with_message, the guard and the layer call it. arg
\* keeps the arguments.
emit(t, x, name, message, signpost_type) ==
    /\ CanStart(t)
    /\ th' = Start(t, [Started(t, "emit", <<"global_logger">> \o emit_steps) EXCEPT
                 !.id = from_raw(x), !.name = name, !.msg = message, !.kind = signpost_type,
                 !.arg = <<x, name, message, signpost_type>>])
    /\ nOps' = nOps + 1
    /\ UNCHANGED <<GLOBAL_CONFIG, GLOBAL_LOGGER, logs, native, emissions, guards, intervals, spans, futures>>

----------------------------------------------------------------------------
\* The tracing layer (tracing_subscriber.rs): TracingSubscriber.

\* What the tracing framework hands to the callbacks. A field has a name and
\* a value that is a string (visited with record_str) or something else,
\* here a number (visited with record_debug); metadata have a name and an
\* optional module path.
MessageStr == [name |-> "message", str |-> TRUE, value |-> <<"m">>]
MessageDebug == [name |-> "message", str |-> FALSE, value |-> 42]
OtherStr == [name |-> "other", str |-> TRUE, value |-> <<"o">>]
SpanAttrs ==
    { [module_path |-> Some(<<"c">>), name |-> <<"s">>, fields |-> <<>>],
      [module_path |-> Some(<<"c">>), name |-> <<"s">>, fields |-> <<OtherStr, MessageStr>>],
      [module_path |-> None, name |-> <<"s">>, fields |-> <<MessageDebug, OtherStr>>] }
Events ==
    { [module_path |-> Some(<<"c">>), current_span |-> None, fields |-> <<MessageStr>>],
      [module_path |-> Some(<<"c">>), current_span |-> Some(<<"s">>), fields |-> <<>>] }

\* Option::unwrap_or_default on an Option<&str>.
Option_unwrap_or_default(o) == IF o = None THEN <<>> ELSE o[1]

\* format!("{:?}", value) of a non-negative integer: its decimal digits.
RECURSIVE fmt_debug(_)
fmt_debug(n) ==
    LET digit == <<"0", "1", "2", "3", "4", "5", "6", "7", "8", "9">>[(n % 10) + 1]
    IN  IF n < 10 THEN <<digit>> ELSE fmt_debug(n \div 10) \o <<digit>>

\* MessageVisitor: record_str and record_debug keep the value of a field
\* named "message" and ignore every other field (record_str_any_field: a
\* record_str that forgets to look at the field's name).
record_str_any_field(message, field) == Some(field.value)

record_str(message, field) ==
    IF field.name = "message" THEN Some(field.value) ELSE message

record_debug(message, field) ==
    IF field.name = "message" THEN Some(fmt_debug(field.value)) ELSE message

\* attrs.record(&mut visitor) / event.record(&mut visitor) from the message
\* the visitor holds so far; MessageVisitor::new() holds None.
RECURSIVE record(_, _)
record(fields, message) ==
    IF fields = <<>> THEN message
    ELSE record(Tail(fields),
                IF Head(fields).str THEN record_str(message, Head(fields))
                                    ELSE record_debug(message, Head(fields)))

MessageVisitor_new == None

\* A callback for span id s is running.
InCallback(s) == \E t \in Threads : ~Idle(t) /\ th[t].span = s

\* if !logger.enabled() { return; }: the native query after get. For the
\* close of an open span, spans records whether the callback got past it.
layer_enabled(t) ==
    /\ At(t, "layer_enabled")
    /\ th' = [th EXCEPT ![t] =
                IF native.enabled
                THEN Next_k(t, [th[t] EXCEPT !.chk = TRUE, !.val = <<>>])
                ELSE Finish([th[t] EXCEPT !.chk = FALSE, !.val = <<>>, !.k = <<>>])]
    /\ spans' = IF th[t].op = "on_close" /\ spans[th[t].span] = "closing"
                THEN [spans EXCEPT ![th[t].span] =
                         IF native.enabled THEN "closed" ELSE "closed while disabled"]
                ELSE spans
    /\ UNCHANGED <<GLOBAL_CONFIG, GLOBAL_LOGGER, logs, native, emissions, guards, nOps, intervals, futures>>

\* An insert into a map that keeps one entry only.
DashMap_insert_single(m, key, value) == [k \in {key} |-> value]

\* DashMap::insert and DashMap::remove.
DashMap_insert(m, key, value) ==
    [k \in DOMAIN m \cup {key} |-> IF k = key THEN value ELSE m[k]]

DashMap_remove(m, key) == [k \in DOMAIN m \ {key} |-> m[k]]

\* ActiveInterval { id, name }
ActiveInterval(id, name) == [id |-> id, name |-> name]

\* on_new_span(attrs, id, _ctx). The framework calls it once for a span id
\* that is not in use, and the span is open from then on.
on_new_span(t, s, attrs) ==
    /\ CanStart(t)
    /\ spans[s] # "open" /\ ~InCallback(s)
    /\ spans' = [spans EXCEPT ![s] = "open"]
    /\ th' = Start(t, [Started(t, "on_new_span",
                               <<"global_logger", "get", "layer_enabled", "get", "generate">>
                               \o emit_steps \o <<"insert">>)
                 EXCEPT !.span = s, !.arg = <<s, attrs>>, !.kind = IntervalBegin,
                        !.msg = record(attrs.fields, MessageVisitor_new),
                        !.name = format(Option_unwrap_or_default(attrs.module_path),
                                        attrs.name)])
    /\ nOps' = nOps + 1
    /\ UNCHANGED <<GLOBAL_CONFIG, GLOBAL_LOGGER, logs, native, emissions, guards, intervals, futures>>

\* An insert that replaces the whole map by the new entry.
insert_replaces_map(t) ==
    /\ At(t, "insert")
    /\ intervals' = DashMap_insert(<<>>, th[t].span, ActiveInterval(th[t].id, th[t].name))
    /\ th' = [th EXCEPT ![t] = Next_k(t, [th[t] EXCEPT
                  !.val = <<ActiveInterval(th[t].id, th[t].name)>>])]
    /\ UNCHANGED <<GLOBAL_CONFIG, GLOBAL_LOGGER, logs, native, emissions, guards, nOps, spans, futures>>

\* self.intervals.insert(id.clone(), ActiveInterval { id: signpost_id, name })
insert(t) ==
    /\ At(t, "insert")
    /\ intervals' = DashMap_insert(intervals, th[t].span, ActiveInterval(th[t].id, th[t].name))
    /\ th' = [th EXCEPT ![t] = Next_k(t, [th[t] EXCEPT
                  !.val = <<ActiveInterval(th[t].id, th[t].name)>>])]
    /\ UNCHANGED <<GLOBAL_CONFIG, GLOBAL_LOGGER, logs, native, emissions, guards, nOps, spans, futures>>

\* on_record(_id, _values, _ctx): an empty body.
on_record(t, s) ==
    /\ CanStart(t)
    /\ th' = Start(t, [Started(t, "on_record", <<>>) EXCEPT !.arg = <<s>>])
    /\ nOps' = nOps + 1
    /\ UNCHANGED <<GLOBAL_CONFIG, GLOBAL_LOGGER, logs, native, emissions, guards, intervals, spans, futures>>

\* An on_event that names the event by its module path alone.
on_event_without_span_name(t, ev) ==
    /\ CanStart(t)
    /\ th' = Start(t, [Started(t, "on_event",
                               <<"global_logger", "get", "layer_enabled", "get", "generate">>
                               \o emit_steps)
                 EXCEPT !.kind = Event, !.arg = <<ev>>,
                        !.msg = record(ev.fields, MessageVisitor_new),
                        !.name = format(Option_unwrap_or_default(ev.module_path), <<>>)])
    /\ nOps' = nOps + 1
    /\ UNCHANGED <<GLOBAL_CONFIG, GLOBAL_LOGGER, logs, native, emissions, guards, intervals, spans, futures>>

\* on_event(event, ctx)
on_event(t, ev) ==
    /\ CanStart(t)
    /\ th' = Start(t, [Started(t, "on_event",
                               <<"global_logger", "get", "layer_enabled", "get", "generate">>
                               \o emit_steps)
                 EXCEPT !.kind = Event, !.arg = <<ev>>,
                        !.msg = record(ev.fields, MessageVisitor_new),
                        !.name = format(Option_unwrap_or_default(ev.module_path),
                                        Option_unwrap_or_default(ev.current_span))])
    /\ nOps' = nOps + 1
    /\ UNCHANGED <<GLOBAL_CONFIG, GLOBAL_LOGGER, logs, native, emissions, guards, intervals, spans, futures>>

\* on_close(id, _ctx). The framework calls it when an open span closes; a
\* layer may also be handed an id it holds nothing for. arg keeps the id and
\* whether the map held an entry for it at the call, val what the lookup found.
on_close(t, s) ==
    /\ CanStart(t)
    /\ ~InCallback(s)
    /\ spans' = [spans EXCEPT ![s] = IF @ = "open" THEN "closing" ELSE @]
    /\ th' = Start(t, [Started(t, "on_close",
                               <<"global_logger", "get", "layer_enabled", "remove">>
                               \o emit_steps)
                 EXCEPT !.span = s,
                        !.arg = <<s, IF s \in DOMAIN intervals THEN "present" ELSE "absent">>])
    /\ nOps' = nOps + 1
    /\ UNCHANGED <<GLOBAL_CONFIG, GLOBAL_LOGGER, logs, native, emissions, guards, intervals, futures>>

\* An on_close that looks the entry up and leaves it in the map.
remove_only_looks_up(t) ==
    /\ At(t, "remove")
    /\ intervals' = intervals
    /\ IF th[t].span \in DOMAIN intervals
       THEN th' = [th EXCEPT ![t] = Next_k(t, [th[t] EXCEPT
                         !.id = intervals[th[t].span].id,
                         !.name = intervals[th[t].span].name,
                         !.msg = None, !.kind = IntervalEnd,
                         !.val = <<"removed">>])]
       ELSE th' = [th EXCEPT ![t] = Finish([th[t] EXCEPT !.k = <<>>, !.val = <<"absent">>])]
    /\ UNCHANGED <<GLOBAL_CONFIG, GLOBAL_LOGGER, logs, native, emissions, guards, nOps, spans, futures>>

\* if let Some((_, interval)) = self.intervals.remove(&id) { logger.emit(..) }
remove(t) ==
    /\ At(t, "remove")
    /\ IF th[t].span \in DOMAIN intervals
       THEN /\ intervals' = DashMap_remove(intervals, th[t].span)
            /\ th' = [th EXCEPT ![t] = Next_k(t, [th[t] EXCEPT
                         !.id = intervals[th[t].span].id,
                         !.name = intervals[th[t].span].name,
                         !.msg = None, !.kind = IntervalEnd,
                         !.val = <<"removed">>])]
       ELSE /\ intervals' = intervals
            /\ th' = [th EXCEPT ![t] = Finish([th[t] EXCEPT !.k = <<>>, !.val = <<"absent">>])]
    /\ UNCHANGED <<GLOBAL_CONFIG, GLOBAL_LOGGER, logs, native, emissions, guards, nOps, spans, futures>>

----------------------------------------------------------------------------
\* #[signpost] on an async fn (signpost_derive): the function returns a
\* future whose body is
\*   async move { setup; interval_creation; let __result = async move #fn_block.await; __result }
\* Nothing runs until the future is polled. A poll runs on the polling thread
\* up to the next suspension point of the block or to its end, where the
\* locals of the future, _interval among them, are dropped.

\* The instrumented functions: module path, name and the macro's message.
AsyncFns ==
    { [module_path |-> <<"c">>, fn_name |-> <<"f">>, message |-> None],
      [module_path |-> <<"c">>, fn_name |-> <<"f">>, message |-> Some(<<"m">>)] }

\* How the wrapped block ends: it returns a value (Ok or Err) or it panics.
Outcomes == { "Ok", "Err", "panic" }
PanicBody == "panic: in the wrapped block"

\* The guard that is a local of future f, 0 when f has not created it.
FutureGuard(f) ==
    IF \E g \in DOMAIN guards : guards[g].fut = f
    THEN CHOOSE g \in DOMAIN guards : guards[g].fut = f
    ELSE 0

\* An instrumented async fn whose setup runs in the call, outside the future.
signpost_async_eager(t, f, fn) ==
    /\ Idle(t)
    /\ futures[f].st = "none"
    /\ futures' = [futures EXCEPT ![f] = [NoFuture EXCEPT !.fn = fn, !.st = "created"]]
    /\ th' = Start(t, Started(t, "signpost_async", macro_setup))
    /\ UNCHANGED <<GLOBAL_CONFIG, GLOBAL_LOGGER, logs, native, emissions, guards, intervals, spans,
                   nOps>>

\* Calling the instrumented async fn: the future f is built and returned.
signpost_async(t, f, fn) ==
    /\ Idle(t)
    /\ futures[f].st = "none"
    /\ futures' = [futures EXCEPT ![f] = [NoFuture EXCEPT !.fn = fn, !.st = "created"]]
    /\ UNCHANGED <<GLOBAL_CONFIG, GLOBAL_LOGGER, logs, native, emissions, guards, intervals, spans,
                   th, nOps>>

\* Future::poll on thread t. The first poll runs the setup and the interval
\* creation and enters the block; a later poll resumes the block where it
\* was suspended.
poll(t, f) ==
    /\ CanStart(t)
    /\ futures[f].st \in {"created", "suspended"}
    /\ futures' = [futures EXCEPT ![f].st = "running", ![f].polls = Append(@, t)]
    /\ th' = Start(t,
                IF futures[f].st = "created"
                THEN [Started(t, "poll", macro_setup \o <<"get", "new_enabled">> \o emit_steps
                                         \o <<"fn_block">>)
                      EXCEPT !.arg = <<f>>,
                             !.name = format(futures[f].fn.module_path, futures[f].fn.fn_name),
                             !.msg = futures[f].fn.message]
                ELSE [Started(t, "poll", <<"fn_block">>)
                      EXCEPT !.arg = <<f>>, !.g = FutureGuard(f),
                             !.log = guards[FutureGuard(f)].log])
    /\ nOps' = nOps + 1
    /\ UNCHANGED <<GLOBAL_CONFIG, GLOBAL_LOGGER, logs, native, emissions, guards, intervals, spans>>

\* The locals of the future are dropped: Drop for SignpostInterval runs
\* end_internal on the thread that drops them, and step next follows.
drop_interval(t, rec, g, path, next) ==
    /\ guards' = [guards EXCEPT ![g].st = "dropping", ![g].exit = path]
    /\ th' = [th EXCEPT ![t] = Resume([rec EXCEPT
                 !.k = emit_steps \o next, !.g = g, !.log = guards[g].log,
                 !.id = end_internal(g).id, !.name = end_internal(g).name,
                 !.msg = end_internal(g).msg, !.kind = end_internal(g).kind])]

\* A block that lets go of _interval whenever it suspends.
fn_block_ends_at_suspension(t) ==
    /\ At(t, "fn_block")
    /\ LET f == th[t].arg[1] IN
       \/ /\ futures' = [futures EXCEPT ![f].st = "suspended"]
          /\ drop_interval(t, th[t], th[t].g, "scope_end", <<>>)
       \/ \E o \in Outcomes :
          /\ futures' = [futures EXCEPT ![f].st = "completing", ![f].outcome = o]
          /\ drop_interval(t, th[t], th[t].g, IF o = "panic" THEN "unwind" ELSE "scope_end",
                           <<"poll_return">>)
    /\ UNCHANGED <<GLOBAL_CONFIG, GLOBAL_LOGGER, logs, native, emissions, nOps, intervals, spans>>

\* async move #fn_block.await: the block runs to a suspension point, where
\* poll returns Pending with _interval alive inside the future, or to its
\* end, by a value or by a panic, where _interval is dropped.
fn_block(t) ==
    /\ At(t, "fn_block")
    /\ LET f == th[t].arg[1] IN
       \/ /\ futures' = [futures EXCEPT ![f].st = "suspended"]
          /\ th' = [th EXCEPT ![t] = Finish([th[t] EXCEPT !.k = <<>>, !.val = <<"Pending">>])]
          /\ UNCHANGED guards
       \/ \E o \in Outcomes :
          /\ futures' = [futures EXCEPT ![f].st = "completing", ![f].outcome = o]
          /\ drop_interval(t, th[t], th[t].g, IF o = "panic" THEN "unwind" ELSE "scope_end",
                           <<"poll_return">>)
    /\ UNCHANGED <<GLOBAL_CONFIG, GLOBAL_LOGGER, logs, native, emissions, nOps, intervals, spans>>

\* The poll that finished the block returns Ready(__result), or the panic of
\* the block goes on unwinding into the caller of poll.
poll_return(t) ==
    /\ At(t, "poll_return")
    /\ LET f == th[t].arg[1] IN
       /\ futures' = [futures EXCEPT ![f].st = "done"]
       /\ th' = IF futures[f].outcome = "panic"
                THEN Panic(t, PanicBody)
                ELSE Return(t, "ok", <<"Ready", futures[f].outcome>>)
    /\ UNCHANGED <<GLOBAL_CONFIG, GLOBAL_LOGGER, logs, native, emissions, guards, nOps, intervals,
                   spans>>

\* A cancellation that forgets the locals of the future instead of dropping
\* them.
drop_future_forgets(t, f) ==
    /\ CanStart(t)
    /\ futures[f].st \in {"created", "suspended"}
    /\ futures' = [futures EXCEPT ![f].st = "cancelled", ![f].dropper = t]
    /\ th' = Start(t, [Started(t, "drop_future", <<>>) EXCEPT !.arg = <<f>>])
    /\ guards' = guards
    /\ nOps' = nOps + 1
    /\ UNCHANGED <<GLOBAL_CONFIG, GLOBAL_LOGGER, logs, native, emissions, intervals, spans>>

\* Cancellation: the future is dropped between polls. A future never polled
\* holds no locals; one suspended in the block drops _interval.
drop_future(t, f) ==
    /\ CanStart(t)
    /\ futures[f].st \in {"created", "suspended"}
    /\ futures' = [futures EXCEPT ![f].st = "cancelled", ![f].dropper = t]
    /\ IF futures[f].st = "suspended"
       THEN drop_interval(t, [Started(t, "drop_future", <<>>) EXCEPT !.arg = <<f>>],
                          FutureGuard(f), "future_dropped", <<>>)
       ELSE /\ th' = Start(t, [Started(t, "drop_future", <<>>) EXCEPT !.arg = <<f>>])
            /\ guards' = guards
    /\ nOps' = nOps + 1
    /\ UNCHANGED <<GLOBAL_CONFIG, GLOBAL_LOGGER, logs, native, emissions, intervals, spans>>

----------------------------------------------------------------------------
\* Scopes. #[signpost] on a sync fn (signpost_derive) puts
\*   setup; interval_creation; #fn_block
\* in the function, so _interval is the first local of the function's scope
\* and the block runs inside it; let _guard = interval!(..) binds a guard to
\* a local of the scope the thread is in. What the thread does next happens
\* inside these scopes, until they are left.

\* The instrumented sync functions: module path, name and the macro's message.
SyncFns == { [module_path |-> <<"c">>, fn_name |-> <<"p">>, message |-> Some(<<"m">>)] }

\* Calling a #[signpost] sync fn, up to the start of its block.
signpost_fn(t, fn) ==
    /\ CanStart(t)
    /\ th' = Start(t, [Started(t, "signpost_fn", macro_setup \o <<"get", "new_enabled">> \o emit_steps)
                 EXCEPT !.name = format(fn.module_path, fn.fn_name), !.msg = fn.message])
    /\ nOps' = nOps + 1
    /\ UNCHANGED <<GLOBAL_CONFIG, GLOBAL_LOGGER, logs, native, emissions, guards, intervals, spans, futures>>

\* let _guard = interval!(name);
let_guard(t, path, name) ==
    /\ CanStart(t)
    /\ th' = Start(t, [Started(t, "let_guard", macro_setup \o <<"get", "new_enabled">> \o emit_steps)
                 EXCEPT !.name = format(path, name), !.msg = None])
    /\ nOps' = nOps + 1
    /\ UNCHANGED <<GLOBAL_CONFIG, GLOBAL_LOGGER, logs, native, emissions, guards, intervals, spans, futures>>

\* The locals of a scope dropped in the order of their declaration.
scope_exit_oldest_first(t) ==
    /\ Idle(t)
    /\ th[t].held # <<>>
    /\ LET g == Head(th[t].held) IN
       /\ guards' = [guards EXCEPT ![g].st = "dropping", ![g].exit = "scope_end"]
       /\ th' = Start(t, [Started(t, "scope_exit", emit_steps) EXCEPT
                    !.held = Tail(th[t].held),
                    !.log = guards[g].log, !.g = g,
                    !.id = end_internal(g).id, !.name = end_internal(g).name,
                    !.msg = end_internal(g).msg, !.kind = end_internal(g).kind])
    /\ UNCHANGED <<GLOBAL_CONFIG, GLOBAL_LOGGER, logs, native, emissions, nOps, intervals, spans, futures>>

\* Control leaves the innermost scope that holds a guard: Rust drops the locals of a scope in reverse order of their
\* declaration and inner scopes before outer ones, so the guard declared
\* last is dropped, which runs Drop for SignpostInterval.
scope_exit(t) ==
    /\ Idle(t)
    /\ th[t].held # <<>>
    /\ LET g == th[t].held[Len(th[t].held)] IN
       /\ guards' = [guards EXCEPT ![g].st = "dropping", ![g].exit = "scope_end"]
       /\ th' = Start(t, [Started(t, "scope_exit", emit_steps) EXCEPT
                    !.held = SubSeq(th[t].held, 1, Len(th[t].held) - 1),
                    !.log = guards[g].log, !.g = g,
                    !.id = end_internal(g).id, !.name = end_internal(g).name,
                    !.msg = end_internal(g).msg, !.kind = end_internal(g).kind])
    /\ UNCHANGED <<GLOBAL_CONFIG, GLOBAL_LOGGER, logs, native, emissions, nOps, intervals, spans, futures>>

----------------------------------------------------------------------------
\* The steps of calls in progress, by component.
ConfigSteps(t) ==
    \/ configure_set(t)
    \/ configure_store(t)
    \/ global_logger(t)
    \/ global_logger_init(t)

LoggerSteps(t) ==
    \/ get(t)
    \/ get_init(t)

EmitSteps(t) ==
    \/ generate(t)
    \/ emit_enabled(t)
    \/ emit_impl(t)

\* The calls a thread can make.
ConfigCalls(t) ==
    \/ \E cfg \in ConfigInputs : configure(t, cfg[1], cfg[2])
    \/ call_global_logger(t)

LoggerCalls(t) ==
    \/ call_enabled(t)
    \/ \E ptr \in Pointers : call_from_pointer(t, ptr)

EventCalls(t) ==
    \/ \E p \in Paths, n \in Labels : event(t, p, n)
    \/ \E p \in Paths, nm \in Labelled : event_with_message(t, p, nm[1], nm[2])

IntervalCalls(t) ==
    \/ \E p \in Paths, n \in Labels : interval(t, p, n)
    \/ \E p \in Paths, nm \in Labelled : interval_with_message(t, p, nm[1], nm[2])
    \/ \E g \in DOMAIN guards, path \in ExitPaths : drop(t, g, path)

\* The whole crate without the tracing adapter.
Next ==
    \/ Toggle
    \/ \E t \in Threads :
        \/ ConfigCalls(t) \/ ConfigSteps(t)
        \/ LoggerCalls(t) \/ LoggerSteps(t) \/ enabled(t) \/ from_pointer(t)
        \/ EventCalls(t) \/ EmitSteps(t)
        \/ IntervalCalls(t) \/ SignpostInterval_new(t)

Spec == Init /\ [][Next]_vars

\* Global configuration and registry: configure and global_logger calls.
NextConfig == \E t \in Threads : ConfigCalls(t) \/ ConfigSteps(t)

SpecConfig == Init /\ [][NextConfig]_vars

\* The logger handle: first uses of the global logger's native handle by
\* enabled, from_pointer and the event helpers.
NextLogger ==
    \/ Toggle
    \/ \E t \in Threads :
        \/ \E cfg \in ConfigInputs : configure(t, cfg[1], cfg[2])
        \/ ConfigSteps(t)
        \/ LoggerCalls(t) \/ LoggerSteps(t) \/ enabled(t) \/ from_pointer(t)
        \/ \E p \in Paths, n \in Labels : event(t, p, n)
        \/ EmitSteps(t)

SpecLogger == Init /\ [][NextLogger]_vars

\* The helper macros: events and intervals on the global logger.
NextMacros ==
    \/ Toggle
    \/ \E t \in Threads :
        \/ \E cfg \in ConfigInputs : configure(t, cfg[1], cfg[2])
        \/ ConfigSteps(t) \/ LoggerSteps(t)
        \/ EventCalls(t) \/ EmitSteps(t)
        \/ IntervalCalls(t) \/ SignpostInterval_new(t)

SpecMacros == Init /\ [][NextMacros]_vars

\* Interval guards: the interval helpers and the guards' destruction, under
\* the configurations of one category (a guard never looks at the category).
NextGuard ==
    \/ Toggle
    \/ \E t \in Threads :
        \/ \E cfg \in ConfigInputs : cfg[2] = POINTS_OF_INTEREST /\ configure(t, cfg[1], cfg[2])
        \/ ConfigSteps(t) \/ LoggerSteps(t) \/ EmitSteps(t)
        \/ IntervalCalls(t) \/ SignpostInterval_new(t)

SpecGuard == Init /\ [][NextGuard]_vars

\* The raw-value constructor on its own: every thread applies it to inputs
\* drawn from RawInputs.
NextRaw == \E t \in Threads, x \in RawInputs : call_from_raw(t, x)

SpecRaw == Init /\ [][NextRaw]_vars

\* The tracing layer: the framework's callbacks on the global logger.
LayerCalls(t) ==
    \/ \E s \in SpanIds, attrs \in SpanAttrs : on_new_span(t, s, attrs)
    \/ \E s \in SpanIds : on_record(t, s)
    \/ \E ev \in Events : on_event(t, ev)
    \/ \E s \in SpanIds : on_close(t, s)

LayerSteps(t) == layer_enabled(t) \/ insert(t) \/ remove(t)

NextLayer ==
    \/ Toggle
    \/ \E t \in Threads :
        \/ \E cfg \in ConfigInputs : configure(t, cfg[1], cfg[2])
        \/ ConfigSteps(t) \/ LoggerSteps(t) \/ EmitSteps(t)
        \/ LayerCalls(t) \/ LayerSteps(t)

SpecLayer == Init /\ [][NextLayer]_vars

\* Spans created and closed by the framework on two threads: a close is made
\* for an open span, once, and tracing, once switched off, stays off.
SpanCalls(t) ==
    \/ \E s \in SpanIds, attrs \in SpanAttrs : on_new_span(t, s, attrs)
    \/ \E s \in SpanIds : spans[s] = "open" /\ on_close(t, s)

NextSpans ==
    \/ native.enabled /\ Toggle
    \/ \E t \in Threads :
        \/ \E cfg \in ConfigInputs : cfg[2] = POINTS_OF_INTEREST /\ configure(t, cfg[1], cfg[2])
        \/ ConfigSteps(t) \/ LoggerSteps(t) \/ EmitSteps(t)
        \/ SpanCalls(t) \/ LayerSteps(t)

SpecSpans == Init /\ [][NextSpans]_vars

\* The emission primitive called directly.
EmitCalls(t) ==
    \E in \in EmitInputs : emit(t, in[1], in[2], in[3], in[4])

NextEmit ==
    \/ Toggle
    \/ \E t \in Threads :
        \/ \E cfg \in ConfigInputs : configure(t, cfg[1], cfg[2])
        \/ ConfigSteps(t) \/ LoggerSteps(t)
        \/ EmitCalls(t) \/ emit_enabled(t) \/ emit_impl(t)

SpecEmit == Init /\ [][NextEmit]_vars

\* #[signpost] async functions: their futures created, polled and dropped.
AsyncCalls(t) ==
    \/ \E f \in FutureIds, fn \in AsyncFns : signpost_async(t, f, fn)
    \/ \E f \in DOMAIN futures : poll(t, f)
    \/ \E f \in DOMAIN futures : drop_future(t, f)

AsyncSteps(t) == fn_block(t) \/ poll_return(t)

NextAsync ==
    \/ Toggle
    \/ \E t \in Threads :
        \/ \E cfg \in ConfigInputs : configure(t, cfg[1], cfg[2])
        \/ ConfigSteps(t) \/ LoggerSteps(t) \/ EmitSteps(t) \/ SignpostInterval_new(t)
        \/ AsyncCalls(t) \/ AsyncSteps(t)

SpecAsync == Init /\ [][NextAsync]_vars

\* Scopes: instrumented sync functions, guards bound to locals and events
\* inside them, under the configurations of one category. The tracing
\* consumer is attached from the start or not at all, and may detach at any
\* moment.
ScopeCalls(t) ==
    \/ \E fn \in SyncFns : signpost_fn(t, fn)
    \/ \E p \in Paths, n \in Labels : let_guard(t, p, n)
    \/ \E p \in Paths, n \in Labels : event(t, p, n)
    \/ scope_exit(t)

NextScope ==
    \/ native.enabled /\ Toggle
    \/ \E t \in Threads :
        \/ \E cfg \in ConfigInputs : cfg[2] = POINTS_OF_INTEREST /\ configure(t, cfg[1], cfg[2])
        \/ ConfigSteps(t) \/ LoggerSteps(t) \/ EmitSteps(t) \/ SignpostInterval_new(t)
        \/ ScopeCalls(t)

SpecScope == Init /\ [][NextScope]_vars

----------------------------------------------------------------------------
\* Properties of the global configuration and registry.

Done(t, op) == Idle(t) /\ th[t].op = op
Configured == GLOBAL_CONFIG.st = "complete"

\* C3: configure succeeds at most once. A configure call that finds the
\* configuration already stored panics; the stored pair never changes once
\* it is complete, so it stays the pair of the one successful call; and the
\* global logger, whenever it exists or is returned, is the logger of that
\* subsystem and category.
C3_ConfigureOnce ==
    /\ [](\A t \in Threads : Done(t, "configure") =>
            /\ th[t].res \in {"ok", PanicAlreadyConfigured}
            /\ Configured
            /\ th[t].res = "ok" => GLOBAL_CONFIG.val = th[t].val)
    /\ [](\A t, u \in Threads :
            Done(t, "configure") /\ Done(u, "configure")
            /\ th[t].res = "ok" /\ th[u].res = "ok" => t = u)
    /\ [](\A l \in DOMAIN logs :
            Configured /\ <<logs[l].subsystem, logs[l].category>> = GLOBAL_CONFIG.val)
    /\ [](\A t \in Threads : Done(t, "global_logger") /\ th[t].res = "ok" =>
            /\ th[t].val[1] \in DOMAIN logs
            /\ logs[th[t].val[1]].subsystem = GLOBAL_CONFIG.val[1]
            /\ logs[th[t].val[1]].category = GLOBAL_CONFIG.val[2])
    /\ [][Configured => GLOBAL_CONFIG' = GLOBAL_CONFIG]_vars
    /\ [][\A t \in Threads :
            Configured /\ At(t, "configure_set") /\ th'[t] # th[t]
            => th'[t].res = PanicAlreadyConfigured]_vars

\* A second configure with another pair has panicked, the first pair is still
\* stored, and a global_logger() call made afterwards returned its logger.
C3_Witness ==
    \E t, u \in Threads :
        /\ Done(t, "configure") /\ th[t].res = PanicAlreadyConfigured
        /\ th[t].val # GLOBAL_CONFIG.val
        /\ Done(u, "global_logger") /\ th[u].res = "ok"
        /\ logs[th[u].val[1]].subsystem = GLOBAL_CONFIG.val[1]

\* C4: a global_logger() access that reads the configuration before a
\* configure has completed panics and yields no logger; no logger exists
\* before the configuration does; the logger is built only inside a
\* global_logger() access (lazily, never by configure), from the stored pair,
\* and an access that returns hands out the stored singleton.
C4_LoggerNeedsConfig ==
    /\ [](logs # <<>> => Configured)
    /\ []((GLOBAL_LOGGER.st = "complete") = (logs # <<>>))
    /\ [](\A t \in Threads : Done(t, "global_logger") =>
            /\ th[t].res \in {"ok", PanicNotConfigured}
            /\ th[t].res = "ok" =>
                 /\ Configured /\ GLOBAL_LOGGER.st = "complete"
                 /\ th[t].val = <<GLOBAL_LOGGER.val>>
                 /\ logs[GLOBAL_LOGGER.val] =
                        OsLog_new(GLOBAL_CONFIG.val[1], GLOBAL_CONFIG.val[2])
            /\ th[t].res = PanicNotConfigured => th[t].val = <<>>)
    /\ [][\A t \in Threads :
            ~Configured /\ At(t, "global_logger_init") /\ th'[t] # th[t]
            => th'[t].res = PanicNotConfigured /\ logs' = logs]_vars
    /\ [][logs' # logs => \E t \in Threads : At(t, "global_logger_init")]_vars

\* One access panicked before the configuration, and an access after it
\* built the logger and returned it.
C4_Witness ==
    \E t, u \in Threads :
        /\ Done(t, "global_logger") /\ th[t].res = PanicNotConfigured
        /\ Done(u, "global_logger") /\ th[u].res = "ok"
        /\ Len(logs) = 1

\* C6: each cell is initialised once under concurrency. At most one thread
\* at a time is inside the initialiser of a cell, and only while the cell is
\* claimed; of the configure calls exactly one succeeds (never two, and one
\* has once any has ended); one OsLog at most is ever constructed, and every
\* thread that got a logger from global_logger() holds that one instance,
\* after its construction has completed.
C6_InitOnce ==
    /\ \A t, u \in Threads : At(t, "configure_store") /\ At(u, "configure_store") => t = u
    /\ (GLOBAL_CONFIG.st = "running") = (\E t \in Threads : At(t, "configure_store"))
    /\ \A t, u \in Threads :
          Done(t, "configure") /\ Done(u, "configure")
          /\ th[t].res = "ok" /\ th[u].res = "ok" => t = u
    /\ \A t \in Threads : Done(t, "configure") => Configured
    /\ \A t, u \in Threads :
          At(t, "global_logger_init") /\ At(u, "global_logger_init") => t = u
    /\ (GLOBAL_LOGGER.st = "running") = (\E t \in Threads : At(t, "global_logger_init"))
    /\ Len(logs) <= 1
    /\ \A t \in Threads :
          (th[t].log # 0 \/ (Done(t, "global_logger") /\ th[t].res = "ok")) =>
              /\ GLOBAL_LOGGER.st = "complete"
              /\ GLOBAL_LOGGER.val \in DOMAIN logs
              /\ th[t].log \in {0, GLOBAL_LOGGER.val}
              /\ Done(t, "global_logger") => th[t].val = <<GLOBAL_LOGGER.val>>

\* Two threads were inside global_logger() at once: one has built the logger
\* and returned, the other waited for it and is about to return the same one.
C6_Witness ==
    \E t, u \in Threads :
        /\ t # u
        /\ Done(t, "global_logger") /\ th[t].res = "ok"
        /\ At(u, "global_logger") /\ th[u].op = "global_logger"
        /\ GLOBAL_LOGGER.st = "complete"

----------------------------------------------------------------------------
\* Interval scope guards.

\* Guard g has been destroyed: drop was called and its emit has returned.
Dropped(g) == guards[g].st = "dropping" /\ \A t \in Threads : Idle(t) \/ th[t].g # g

\* The native emissions of one type made on behalf of guard g.
EmissionsOf(g, type) ==
    { i \in DOMAIN emissions : emissions[i].g = g /\ emissions[i].type = type }

\* Guard g caused exactly one begin and one end, both with its id and name,
\* the begin before the end, the end without a message.
OneBeginOneEnd(g) ==
    /\ Cardinality(EmissionsOf(g, SIGNPOST_TYPE_EVENT)) = 0
    /\ Cardinality(EmissionsOf(g, SIGNPOST_TYPE_INTERVAL_BEGIN)) = 1
    /\ Cardinality(EmissionsOf(g, SIGNPOST_TYPE_INTERVAL_END)) = 1
    /\ \A i \in DOMAIN emissions : emissions[i].g = g =>
          /\ emissions[i].id = guards[g].id.raw
          /\ emissions[i].name = name_cstr(guards[g].name)
          /\ emissions[i].log = logs[guards[g].log].handle
    /\ \A i \in EmissionsOf(g, SIGNPOST_TYPE_INTERVAL_BEGIN) :
          /\ emissions[i].msg = message_cstr(guards[g].message)
          /\ \A j \in EmissionsOf(g, SIGNPOST_TYPE_INTERVAL_END) : i < j
    /\ \A j \in EmissionsOf(g, SIGNPOST_TYPE_INTERVAL_END) : emissions[j].msg = None

\* C1 as stated: a guard created while tracing is enabled and then
\* destroyed, by whichever exit path, causes exactly one IntervalBegin and
\* exactly one IntervalEnd, both with the guard's id and name, the end without
\* a message. (Refuted: tracing switched off before the destructor's emit
\* leaves the begin without an end.)
C1_AsStated ==
    \A g \in DOMAIN guards : guards[g].enNew /\ Dropped(g) => OneBeginOneEnd(g)

\* C1, amended: a guard created and destroyed while tracing stays enabled
\* from its creation to the return of its destructor causes, by whichever exit
\* path, exactly one IntervalBegin and exactly one IntervalEnd, both with the
\* guard's id and name; the end carries no message even if the begin had one.
C1_BeginEndWhileEnabled ==
    \A g \in DOMAIN guards :
        guards[g].enNew /\ ~guards[g].sawOff /\ Dropped(g) =>
            /\ guards[g].exit \in ExitPaths
            /\ OneBeginOneEnd(g)

\* A guard with a begin message, destroyed by unwinding while tracing was
\* enabled throughout: its begin carries the message and its end does not.
C1_Witness ==
    \E g \in DOMAIN guards :
        /\ guards[g].enNew /\ ~guards[g].sawOff /\ Dropped(g)
        /\ guards[g].exit = "unwind"
        /\ guards[g].message # None
        /\ \E i, j \in DOMAIN emissions :
              /\ emissions[i].g = g /\ emissions[i].type = SIGNPOST_TYPE_INTERVAL_BEGIN
              /\ emissions[i].msg = guards[g].message
              /\ emissions[j].g = g /\ emissions[j].type = SIGNPOST_TYPE_INTERVAL_END
              /\ emissions[j].msg = None

\* C2 as stated: a guard created while tracing is disabled and then
\* destroyed causes zero native emissions. (Refuted: tracing switched on
\* before the destructor's emit yields an end without a begin.)
C2_AsStated ==
    \A g \in DOMAIN guards :
        ~guards[g].enNew /\ Dropped(g) =>
            \A i \in DOMAIN emissions : emissions[i].g # g

\* C2, amended: a guard created and destroyed while tracing stays disabled
\* from its creation to the return of its destructor causes zero native
\* emissions: the begin is skipped and the destructor's end is a no-op.
C2_NoEmissionWhileDisabled ==
    \A g \in DOMAIN guards :
        ~guards[g].enNew /\ ~guards[g].sawOn /\ Dropped(g) =>
            \A i \in DOMAIN emissions : emissions[i].g # g

\* A guard created and destroyed with tracing off throughout, after which the
\* native facility has seen nothing from it, although tracing is on by now and
\* another emission has been made.
C2_Witness ==
    \E g \in DOMAIN guards :
        /\ ~guards[g].enNew /\ ~guards[g].sawOn /\ Dropped(g)
        /\ \A i \in DOMAIN emissions : emissions[i].g # g
        /\ native.enabled

----------------------------------------------------------------------------
\* The logger handle and the identifiers.

\* A call that fails in OsLog::get.
GetPanics == { PanicNulSubsystem, PanicOncePoisoned }

\* The calls that use the native handle of the global logger.
HandleUses == { "enabled", "from_pointer", "event", "event_with_message",
                "interval", "interval_with_message" }

\* C5: for one OsLog, in every interleaving of concurrent first uses the
\* native create-logger call is executed exactly once: never more than once;
\* a thread holds a handle only after the creation has completed, and then the
\* one stored handle, never the initial null handle; and every first use that
\* has ended got the handle from get, the creation having been made.
C5_CreatedExactlyOnce ==
    /\ Len(native.handles) <= Len(logs)
    /\ \A l \in DOMAIN logs :
          logs[l].init = "done" => logs[l].handle \in DOMAIN native.handles
    /\ \A t \in Threads : th[t].h # 0 =>
          /\ logs[th[t].log].init = "done"
          /\ th[t].h = logs[th[t].log].handle
    /\ \A t \in Threads :
          Idle(t) /\ th[t].op \in HandleUses /\ th[t].res # PanicNotConfigured =>
              /\ th[t].res \notin GetPanics
              /\ Len(native.handles) = 1

\* C7: from_pointer returns Err(InvalidScope) exactly when the matching scope
\* of the logger's handle is system-wide, and Ok(id) otherwise.
C7_InvalidScope ==
    \A t \in Threads :
        Done(t, "from_pointer") /\ th[t].res \in {"Ok", "Err(InvalidScope)"} =>
            (th[t].res = "Err(InvalidScope)")
                = (native.handles[logs[GLOBAL_LOGGER.val].handle].scope = "system")

\* C8: from_raw is an unchecked constructor with exact round trip: every
\* from_raw(x).raw() that has been evaluated gave x back, for the reserved
\* values as for all others, and the call did not fail.
C8_RawRoundTrip ==
    \A t \in Threads : Done(t, "from_raw") =>
        /\ th[t].res = "ok"
        /\ Len(th[t].val) = 2
        /\ th[t].val[2] = th[t].val[1]

\* Both threads have made the round trip, one of them with a value that uses
\* all 64 bits and is not reserved.
C8_Witness ==
    \E t, u \in Threads :
        /\ t # u /\ Done(t, "from_raw") /\ Done(u, "from_raw")
        /\ th[t].val[1] \notin {OS_SIGNPOST_ID_NULL, OS_SIGNPOST_ID_INVALID}
        /\ th[t].val[1][1] # 0
        /\ th[t].val[2] = th[t].val[1]

\* The helper call an emission belongs to: the call that created the guard
\* for a begin or an end, the emitting call for an event.
Origin(e) == IF e.g # 0 THEN <<guards[e.g].by, guards[e.g].call>> ELSE <<e.by, e.call>>

\* The ids generated by helper calls, each with its call: those of the calls
\* in progress, of the guards and of the emissions.
HelperIds ==
    { <<<<t, th[t].call>>, th[t].id.raw>> :
          t \in { u \in Threads : ~Idle(u) /\ th[u].op # "drop" /\ th[u].id # NoId } }
    \cup { <<<<guards[g].by, guards[g].call>>, guards[g].id.raw>> : g \in DOMAIN guards }
    \cup { <<Origin(emissions[i]), emissions[i].id>> : i \in DOMAIN emissions }

\* Ids used by distinct helper calls are pairwise distinct.
DistinctIds == \A x, y \in HelperIds : x[1] # y[1] => x[2] # y[2]

\* The emissions made by the call that thread t has just ended.
EmissionsBy(t) ==
    { i \in DOMAIN emissions : emissions[i].by = t /\ emissions[i].call = th[t].call }

\* C9: every helper call uses an id of its own, so ids of distinct calls are
\* pairwise distinct; and an event!("A") call made after configuration with
\* tracing enabled, whatever runs beside it, returns having produced exactly
\* one Event emission, named <calling path>::A, so that two concurrent calls
\* produce exactly two, with distinct ids.
C9_DistinctIdsOneEventPerCall ==
    /\ DistinctIds
    /\ \A t \in Threads :
          Done(t, "event") /\ th[t].on /\ th[t].res # PanicNotConfigured =>
              /\ th[t].res = "ok"
              /\ Cardinality(EmissionsBy(t)) = 1
              /\ \A i \in EmissionsBy(t) :
                    /\ emissions[i].type = SIGNPOST_TYPE_EVENT
                    /\ \E p \in Paths : emissions[i].name = format(p, <<"A">>)
    /\ \A t, u \in Threads :
          /\ t # u /\ Done(t, "event") /\ Done(u, "event") /\ th[t].on /\ th[u].on
          /\ th[t].res # PanicNotConfigured /\ th[u].res # PanicNotConfigured
          => /\ Cardinality(EmissionsBy(t) \cup EmissionsBy(u)) = 2
             /\ \A i \in EmissionsBy(t), j \in EmissionsBy(u) :
                   emissions[i].id # emissions[j].id

\* C10: the only calls that panic are a configure that finds the
\* configuration already stored and a global_logger() access before the
\* configuration; every other call, for every subsystem, name and message
\* string and in every enabled or disabled state, ends without a panic.
C10_OnlyConfigurationPanics ==
    \A t \in Threads : Idle(t) /\ th[t].op # "none" =>
        \/ th[t].res \in {"ok", "Ok"}
        \/ th[t].op = "configure" /\ th[t].res = PanicAlreadyConfigured
        \/ th[t].op # "configure" /\ th[t].res = PanicNotConfigured

----------------------------------------------------------------------------
\* The tracing layer.

\* C11: a span-close callback for a span id that has no map entry produces
\* no native emission and no error (it returns, the only panic allowed
\* being that of a logger access before configuration) and leaves the map
\* unchanged.
C11_CloseWithoutEntry ==
    \A t \in Threads :
        Done(t, "on_close") /\ th[t].arg[2] = "absent"
        /\ th[t].res # PanicNotConfigured =>
            /\ th[t].res = "ok"
            /\ EmissionsBy(t) = {}
            /\ th[t].val # <<"removed">>

\* Span id s is closed: its close callback has returned.
Closed(s) == spans[s] \in {"closing", "closed", "closed while disabled"} /\ ~InCallback(s)

\* C12 as stated: the map holds an entry for a span id only while that span
\* is open (its callbacks included), so that once every created span has been
\* closed the map is empty. (Refuted: a close callback that finds the logger
\* disabled returns before the removal.)
C12_AsStated ==
    \A s \in DOMAIN intervals : spans[s] = "open" \/ InCallback(s)

\* C12, amended: an entry inserted when a span is created is removed when
\* that span closes with the logger enabled at the close callback's check: a
\* close that had an entry and got past the check has removed it, the map
\* holds an entry for a span id only while that span is open or after a close
\* that found the logger disabled, and the map is empty once every created
\* span has been closed by a callback that got past its check.
C12_EntryRemovedAtEnabledClose ==
    /\ \A s \in DOMAIN intervals :
          spans[s] \in {"open", "closed while disabled"} \/ InCallback(s)
    /\ \A t \in Threads :
          Done(t, "on_close") /\ th[t].res = "ok" /\ th[t].chk /\ th[t].arg[2] = "present"
          => th[t].val = <<"removed">>
    /\ (\A s \in SpanIds : spans[s] \in {"none", "closed"} /\ ~InCallback(s))
          => intervals = <<>>

\* A span was created with tracing enabled, its entry was inserted, and its
\* close, also with tracing enabled, removed it: the map is empty again.
C12_Witness ==
    \E t, u \in Threads :
        /\ Done(t, "on_new_span") /\ th[t].chk /\ Len(th[t].val) = 1
        /\ Done(u, "on_close") /\ th[u].chk /\ th[u].arg = <<th[t].arg[1], "present">>
        /\ th[u].val = <<"removed">>
        /\ spans[th[t].arg[1]] = "closed"
        /\ intervals = <<>>

\* The fields of a callback's attributes, as a set.
FieldsOf(attrs) == { attrs.fields[i] : i \in DOMAIN attrs.fields }

\* C13: a "message" field present on the span-create callback is the message
\* of that span's IntervalBegin emission (a string value as it is, any other
\* value in its debug format, no message when there is no such field, and
\* never the value of another field); and a span-record callback, for any
\* span and at any time, makes no native emission and changes neither the
\* map nor any other state.
C13_MessageForwardedRecordNoOp ==
    /\ [](\A t \in Threads : Done(t, "on_new_span") =>
            \A i \in EmissionsBy(t) :
                /\ emissions[i].type = SIGNPOST_TYPE_INTERVAL_BEGIN
                /\ MessageStr \in FieldsOf(th[t].arg[2]) => emissions[i].msg = <<(<<"m">>)>>
                /\ MessageDebug \in FieldsOf(th[t].arg[2]) => emissions[i].msg = <<(<<"4", "2">>)>>
                /\ (\A f \in FieldsOf(th[t].arg[2]) : f.name # "message")
                      => emissions[i].msg = None)
    /\ [][\A t \in Threads :
            th'[t].op = "on_record" /\ th'[t].call # th[t].call =>
                /\ emissions' = emissions
                /\ intervals' = intervals
                /\ <<GLOBAL_CONFIG, GLOBAL_LOGGER, logs, native, guards, spans>>' =
                       <<GLOBAL_CONFIG, GLOBAL_LOGGER, logs, native, guards, spans>>
                /\ \A u \in Threads \ {t} : th'[u] = th[u]]_vars

\* A span was created with a "message" field that is not a string and
\* another field after it, its begin carries the debug format of the message,
\* and a span-record callback has been made since.
C13_Witness ==
    \E t, u \in Threads :
        /\ Done(t, "on_new_span") /\ MessageDebug \in FieldsOf(th[t].arg[2])
        /\ \E i \in EmissionsBy(t) : emissions[i].msg = <<(<<"4", "2">>)>>
        /\ Done(u, "on_record") /\ th[u].arg[1] \in DOMAIN intervals

\* "<module-path>::<span-name>", the module path empty when there is none.
SpanName(attrs) ==
    (IF attrs.module_path = None THEN <<>> ELSE attrs.module_path[1])
        \o <<":", ":">> \o attrs.name

\* The span-create callback that thread t has ended emitted exactly one
\* IntervalBegin, with the name of its span and with the id of the entry it
\* inserted, an id no emission made for anything else carries.
OneBeginAndEntry(t) ==
    /\ Cardinality(EmissionsBy(t)) = 1
    /\ Len(th[t].val) = 1
    /\ th[t].val[1].name = SpanName(th[t].arg[2])
    /\ \A i \in EmissionsBy(t) :
          /\ emissions[i].type = SIGNPOST_TYPE_INTERVAL_BEGIN
          /\ emissions[i].name = SpanName(th[t].arg[2])
          /\ emissions[i].id = th[t].val[1].id.raw
    /\ \A i \in DOMAIN emissions :
          emissions[i].id = th[t].val[1].id.raw => emissions[i].span = th[t].arg[1]

\* C20 as stated: a span-create callback that finds the logger disabled at
\* its check emits nothing and inserts nothing; one that finds it enabled
\* generates a fresh id, emits exactly one IntervalBegin named
\* "<module-path>::<span-name>" and inserts the entry (id, name). (Refuted:
\* tracing switched off between the callback's check and emit's own check
\* leaves the entry without a begin.)
C20_AsStated ==
    \A t \in Threads : Done(t, "on_new_span") /\ th[t].res = "ok" =>
        /\ ~th[t].chk => EmissionsBy(t) = {} /\ th[t].val = <<>>
        /\ th[t].chk => OneBeginAndEntry(t)

\* C20, amended: a span-create callback that finds the logger disabled at
\* its check emits nothing and inserts nothing; otherwise it generates one
\* fresh id, emits exactly one IntervalBegin named "<module-path>::<span-name>"
\* if the logger is still enabled at emit's own check and nothing if it is
\* not, and afterwards inserts exactly one entry (id, name) keyed by the span
\* id, leaving the entries of other spans untouched.
C20_SpanCreate ==
    /\ [](\A t \in Threads : Done(t, "on_new_span") /\ th[t].res = "ok" =>
            /\ ~th[t].chk => EmissionsBy(t) = {} /\ th[t].val = <<>>
            /\ th[t].chk /\ th[t].en => OneBeginAndEntry(t)
            /\ th[t].chk /\ ~th[t].en =>
                  /\ EmissionsBy(t) = {}
                  /\ Len(th[t].val) = 1
                  /\ th[t].val[1].name = SpanName(th[t].arg[2])
                  /\ \A i \in DOMAIN emissions :
                        emissions[i].id = th[t].val[1].id.raw
                        => emissions[i].span = th[t].arg[1])
    /\ [][\A t \in Threads : At(t, "insert") /\ th'[t] # th[t] =>
            /\ th[t].chk
            /\ th[t].en => \E i \in DOMAIN emissions :
                              /\ emissions[i].by = t /\ emissions[i].call = th[t].call
                              /\ emissions[i].id = th[t].id.raw
            /\ DOMAIN intervals' = DOMAIN intervals \cup {th[t].span}
            /\ intervals'[th[t].span] = ActiveInterval(th[t].id, th[t].name)
            /\ \A k \in DOMAIN intervals \ {th[t].span} : intervals'[k] = intervals[k]
            /\ emissions' = emissions]_vars

\* Two spans were created with tracing enabled, each with its own begin and
\* its own entry, the second insertion leaving the first entry in place.
C20_Witness ==
    \E t, u \in Threads :
        /\ t # u /\ Done(t, "on_new_span") /\ Done(u, "on_new_span")
        /\ th[t].chk /\ th[t].en /\ th[u].chk /\ th[u].en
        /\ OneBeginAndEntry(t) /\ OneBeginAndEntry(u)
        /\ DOMAIN intervals = {th[t].arg[1], th[u].arg[1]}
        /\ intervals[th[t].arg[1]] = th[t].val[1]
        /\ intervals[th[u].arg[1]] = th[u].val[1]
        /\ th[t].val[1].id # th[u].val[1].id

----------------------------------------------------------------------------
\* The emission primitive called directly.

\* The emissions of the call thread t has finished last.
EmissionsOfCall(t) ==
    { i \in DOMAIN emissions : emissions[i].by = t /\ emissions[i].call = th[t].call }

\* The native handle of the logger was created and stored inside the emit
\* call thread t has finished last.
HandleMade(t) == th[t].made

\* An emit call of thread t has returned, its check having found tracing
\* disabled (on = FALSE) or enabled (on = TRUE).
EmitReturned(t, on) == Done(t, "emit") /\ th[t].res = "ok" /\ th[t].en = on

\* C16 as stated: an emit that finds the logger disabled makes no native call
\* and changes no state of the logger, so no native handle is created and
\* stored in the logger during the call.
C16_AsStated ==
    \A t \in Threads :
        EmitReturned(t, FALSE) => EmissionsOfCall(t) = {} /\ ~HandleMade(t)

\* C16: an emit that finds the logger disabled makes no native emission, for
\* every kind, and returns at its check; the only change an emit call ever
\* makes to a logger is the one-time creation of the native handle in get,
\* which happens before the check.
C16_DisabledEmitsNothing ==
    /\ [](\A t \in Threads : EmitReturned(t, FALSE) => EmissionsOfCall(t) = {})
    /\ [][\A t \in Threads :
            /\ (At(t, "emit_enabled") /\ th[t].op = "emit" /\ ~native.enabled /\ th'[t] # th[t])
                  => /\ Idle(t)' /\ th'[t].res = "ok"
                     /\ emissions' = emissions /\ logs' = logs /\ native' = native
            /\ (/\ th[t].op = "emit" /\ ~Idle(t) /\ th'[t] # th[t]
                /\ \E l \in DOMAIN logs : logs'[l] # logs[l])
                  => At(t, "get") \/ At(t, "get_init")]_vars

\* A disabled emit of each kind has returned, one of them having created the
\* handle of the logger on its way to the check.
C16_Witness ==
    \E t, u \in Threads :
        /\ EmitReturned(t, FALSE) /\ HandleMade(t) /\ th[t].arg[4] = IntervalEnd
        /\ EmitReturned(u, FALSE) /\ ~HandleMade(u) /\ th[u].arg[4] = Event
        /\ Len(native.handles) = 1

\* The native type of each kind, and what conversion makes of a string.
NativeType(kind) ==
    IF kind = Event THEN 0 ELSE IF kind = IntervalBegin THEN 1 ELSE 2

\* C18: an emit that finds the logger enabled at its check makes exactly one
\* native emission: its type is the one of the kind (distinct kinds have
\* distinct types), its id is the given id, its name the given name and its
\* message the given message, a null pointer when there is none.
C18_OneEmissionAsGiven ==
    \A t \in Threads :
        EmitReturned(t, TRUE) =>
            /\ Cardinality(EmissionsOfCall(t)) = 1
            /\ \A i \in EmissionsOfCall(t) :
                /\ emissions[i].type = NativeType(th[t].arg[4])
                /\ \A k \in SignpostType :
                       emissions[i].type = NativeType(k) => k = th[t].arg[4]
                /\ emissions[i].id = th[t].arg[1]
                /\ ~HasNul(th[t].arg[2]) => emissions[i].name = th[t].arg[2]
                /\ th[t].arg[3] = None => emissions[i].msg = None
                /\ (th[t].arg[3] # None /\ ~HasNul(th[t].arg[3][1]))
                       => emissions[i].msg = th[t].arg[3]

\* Enabled emits of an interval end with a message and of an event without
\* one have returned.
C18_Witness ==
    \E t, u \in Threads :
        /\ EmitReturned(t, TRUE) /\ th[t].arg[4] = IntervalEnd
        /\ th[t].arg[3] = Some(<<"m">>) /\ th[t].arg[2] = <<"A">>
        /\ EmitReturned(u, TRUE) /\ th[u].arg[4] = Event /\ th[u].arg[3] = None
        /\ th[t].arg[1] # th[u].arg[1]

\* An emit call of thread t that got past its check while a name or a message
\* it was given does not convert.
ConversionFails(t) ==
    /\ th[t].op = "emit" /\ Idle(t) /\ th[t].en
    /\ \/ HasNul(th[t].arg[2])
       \/ th[t].arg[3] # None /\ HasNul(th[t].arg[3][1])

\* C19: when the name or the message of an enabled emit has an interior zero
\* byte, the call returns normally and still makes exactly one emission with
\* the given id and kind, the string that failed replaced by the empty string.
C19_FailedConversionEmitsEmpty ==
    \A t \in Threads :
        ConversionFails(t) =>
            /\ th[t].res = "ok"
            /\ Cardinality(EmissionsOfCall(t)) = 1
            /\ \A i \in EmissionsOfCall(t) :
                /\ emissions[i].id = th[t].arg[1]
                /\ emissions[i].type = NativeType(th[t].arg[4])
                /\ HasNul(th[t].arg[2]) => emissions[i].name = <<>>
                /\ (th[t].arg[3] # None /\ HasNul(th[t].arg[3][1]))
                       => emissions[i].msg = Some(<<>>)

\* An emit with a name that does not convert and one with a message that
\* does not convert have returned.
C19_Witness ==
    \E t, u \in Threads :
        /\ ConversionFails(t) /\ HasNul(th[t].arg[2]) /\ th[t].res = "ok"
        /\ ConversionFails(u) /\ ~HasNul(th[u].arg[2]) /\ th[u].res = "ok"
        /\ th[u].arg[4] = IntervalBegin


----------------------------------------------------------------------------
\* C17: for every guard, whatever the tracing consumer does and whichever
\* way the guard's scope is left, at most one IntervalBegin and at most one
\* IntervalEnd are emitted for it, nothing else is, and when both are emitted
\* the begin comes before the end in emission order.
C17_AtMostOneBeginThenEnd ==
    \A g \in DOMAIN guards :
        /\ Cardinality(EmissionsOf(g, SIGNPOST_TYPE_INTERVAL_BEGIN)) <= 1
        /\ Cardinality(EmissionsOf(g, SIGNPOST_TYPE_INTERVAL_END)) <= 1
        /\ EmissionsOf(g, SIGNPOST_TYPE_EVENT) = {}
        /\ \A i \in EmissionsOf(g, SIGNPOST_TYPE_INTERVAL_BEGIN),
              j \in EmissionsOf(g, SIGNPOST_TYPE_INTERVAL_END) : i < j

\* A guard that saw tracing go off and come back between its begin and its
\* end, both emitted, its scope left by an early return.
C17_Witness ==
    \E g \in DOMAIN guards :
        /\ Dropped(g) /\ guards[g].sawOff /\ guards[g].exit = "early_return"
        /\ EmissionsOf(g, SIGNPOST_TYPE_INTERVAL_BEGIN) # {}
        /\ EmissionsOf(g, SIGNPOST_TYPE_INTERVAL_END) # {}


----------------------------------------------------------------------------
\* #[signpost] async functions.

\* Future f has been dropped while suspended in its block, and the thread
\* that dropped it is through with the destructors.
Cancelled(f) ==
    /\ futures[f].st = "cancelled" /\ FutureGuard(f) # 0
    /\ \A t \in Threads : Idle(t) \/ FutOf(t) # f

\* The interval of future f has begun: its guard's begin has been emitted.
Begun(f) ==
    FutureGuard(f) # 0 /\ EmissionsOf(FutureGuard(f), SIGNPOST_TYPE_INTERVAL_BEGIN) # {}

\* C14 as stated: a future cancelled after its interval has begun and before
\* its block has completed has its guard's IntervalEnd emitted exactly once.
\* (Refuted: the destructor's emit is gated on tracing being enabled, and
\* tracing may have been switched off since the begin.)
C14_AsStated ==
    \A f \in DOMAIN futures :
        Cancelled(f) /\ Begun(f) =>
            Cardinality(EmissionsOf(FutureGuard(f), SIGNPOST_TYPE_INTERVAL_END)) = 1

\* C14, amended: a future cancelled after its interval has begun and before
\* its block has completed, tracing having stayed enabled from the begin to
\* the end of the cancellation, has its guard's IntervalEnd emitted exactly
\* once, after the begin, by the thread that dropped the future; a cancelled
\* future is never polled again, and in no case is there a second IntervalEnd.
C14_CancelledEndsOnceWhileEnabled ==
    /\ [](\A f \in DOMAIN futures :
            /\ FutureGuard(f) # 0 =>
                  Cardinality(EmissionsOf(FutureGuard(f), SIGNPOST_TYPE_INTERVAL_END)) <= 1
            /\ (Cancelled(f) /\ Begun(f) /\ ~guards[FutureGuard(f)].sawOff) =>
                  /\ Cardinality(EmissionsOf(FutureGuard(f), SIGNPOST_TYPE_INTERVAL_END)) = 1
                  /\ \A j \in EmissionsOf(FutureGuard(f), SIGNPOST_TYPE_INTERVAL_END) :
                        /\ emissions[j].by = futures[f].dropper
                        /\ emissions[j].id = guards[FutureGuard(f)].id.raw
                        /\ \A i \in EmissionsOf(FutureGuard(f), SIGNPOST_TYPE_INTERVAL_BEGIN) :
                              i < j)
    /\ [][\A f \in DOMAIN futures :
            futures[f].st = "cancelled" => futures'[f] = futures[f]]_vars

\* A future polled on one thread, suspended, and dropped by the other thread
\* with tracing enabled throughout: its end has been emitted.
C14_Witness ==
    \E f \in DOMAIN futures :
        /\ Cancelled(f) /\ Begun(f) /\ ~guards[FutureGuard(f)].sawOff
        /\ futures[f].polls # <<>> /\ futures[f].dropper # futures[f].polls[1]
        /\ EmissionsOf(FutureGuard(f), SIGNPOST_TYPE_INTERVAL_END) # {}

\* The block of future f has not come to its end and f has not been dropped.
Open(f) == futures[f].st \in {"created", "running", "suspended"}

\* C15: the guard of an instrumented async function stays open across the
\* suspension points of the block: while the future is suspended, or running
\* before the end of the block, no IntervalEnd of its guard has been emitted
\* and the guard is alive; when the block has come to its end, by a value or
\* by a panic, an IntervalEnd there is was emitted by the thread that made
\* the last poll, whichever thread made the earlier ones.
C15_OpenAcrossSuspension ==
    \A f \in DOMAIN futures :
        /\ (Open(f) /\ FutureGuard(f) # 0) =>
              /\ EmissionsOf(FutureGuard(f), SIGNPOST_TYPE_INTERVAL_END) = {}
              /\ guards[FutureGuard(f)].st = "live"
        /\ futures[f].st \in {"completing", "done"} =>
              /\ futures[f].outcome \in Outcomes
              /\ guards[FutureGuard(f)].st = "dropping"
              /\ \A j \in EmissionsOf(FutureGuard(f), SIGNPOST_TYPE_INTERVAL_END) :
                    emissions[j].by = futures[f].polls[Len(futures[f].polls)]

\* A future first polled on one thread and resumed to a failing end of its
\* block on the other: the begin was emitted by the first thread, the end by the
\* second.
C15_Witness ==
    \E f \in DOMAIN futures :
        /\ futures[f].st = "done" /\ futures[f].outcome = "Err"
        /\ Len(futures[f].polls) = 2 /\ futures[f].polls[1] # futures[f].polls[2]
        /\ \E i \in EmissionsOf(FutureGuard(f), SIGNPOST_TYPE_INTERVAL_BEGIN),
              j \in EmissionsOf(FutureGuard(f), SIGNPOST_TYPE_INTERVAL_END) :
              /\ emissions[i].by = futures[f].polls[1]
              /\ emissions[j].by = futures[f].polls[2]


----------------------------------------------------------------------------
\* The registry after a failed access.

\* The last call of thread t was a global_logger() that panicked for want of
\* a configuration.
FailedAccess(t) == Done(t, "global_logger") /\ th[t].res = PanicNotConfigured

\* C24: a global_logger() access that fails because nothing is configured
\* changes neither the configuration nor the set of loggers and leaves the
\* logger cell without a value and ready to run its initialiser again; a
\* configure that finds the configuration empty stores its pair whatever
\* accesses failed before, and once a pair (s, c) is stored every access that
\* reaches the cell builds or returns the logger of (s, c) and never panics.
C24_FailedAccessLeavesNoTrace ==
    /\ [][\A t \in Threads :
            (th'[t] # th[t] /\ th'[t].res = PanicNotConfigured) =>
                /\ GLOBAL_CONFIG' = GLOBAL_CONFIG /\ logs' = logs
                /\ OnceLock_get(GLOBAL_LOGGER') = None
                /\ OnceLockRuns(GLOBAL_LOGGER'.st) /\ ~OnceBlocks(GLOBAL_LOGGER'.st)]_vars
    /\ [][\A t \in Threads :
            (At(t, "configure_set") /\ OnceLockRuns(GLOBAL_CONFIG.st) /\ th'[t] # th[t]) =>
                /\ th'[t].k = <<"configure_store">>
                /\ GLOBAL_CONFIG'.st = "running"]_vars
    /\ [][\A t \in Threads :
            (Configured /\ th[t].op = "global_logger" /\ ~Idle(t) /\ th'[t] # th[t]) =>
                \/ th'[t].k # <<>> /\ Head(th'[t].k) = "global_logger_init"
                \/ /\ Done(t, "global_logger")' /\ th'[t].res = "ok"
                   /\ th'[t].val # <<>> /\ th'[t].val[1] \in DOMAIN logs'
                   /\ logs'[th'[t].val[1]] =
                          OsLog_new(GLOBAL_CONFIG.val[1], GLOBAL_CONFIG.val[2])]_vars
    /\ [](\A t, u \in Threads :
            (FailedAccess(t) /\ Done(u, "global_logger") /\ th[u].res = "ok") =>
                /\ Configured
                /\ th[u].val # <<>> /\ th[u].val[1] \in DOMAIN logs
                /\ logs[th[u].val[1]] = OsLog_new(GLOBAL_CONFIG.val[1], GLOBAL_CONFIG.val[2]))

\* The first call of one thread was an access that failed; the other thread
\* then configured ("b", DYNAMIC_TRACING) and its access returned a logger of
\* that pair.
C24_Witness ==
    \E t, u \in Threads :
        /\ FailedAccess(t) /\ th[t].call = 1
        /\ Done(u, "global_logger") /\ th[u].res = "ok" /\ th[u].call = 2
        /\ GLOBAL_CONFIG = [st |-> "complete", val |-> <<(<<"b">>), DYNAMIC_TRACING>>]
        /\ logs[th[u].val[1]] = OsLog_new(<<"b">>, DYNAMIC_TRACING)


----------------------------------------------------------------------------
\* No future has been polled.
NonePolled == \A f \in FutureIds : futures[f].polls = <<>>

\* C25: calling an instrumented async function only builds the future: the
\* call changes nothing of the logger, the native facility or the guards.
\* As long as no future has been polled, whether it is still held or was
\* dropped, the logger cell is untouched, no id has been generated, no guard
\* exists and nothing has been emitted; the begin of a future's guard is
\* emitted by the thread of its first poll.
C25_NothingBeforeFirstPoll ==
    /\ [][\A f \in FutureIds :
            (futures[f].st = "none" /\ futures'[f].st # "none") =>
                /\ futures'[f].st = "created" /\ futures'[f].polls = <<>>
                /\ emissions' = emissions /\ native' = native /\ guards' = guards
                /\ GLOBAL_LOGGER' = GLOBAL_LOGGER /\ logs' = logs /\ th' = th]_vars
    /\ [](NonePolled =>
            /\ emissions = <<>> /\ guards = <<>> /\ logs = <<>>
            /\ native.nextId = 1 /\ native.handles = <<>>
            /\ GLOBAL_LOGGER.st = "uninit")
    /\ [](\A f \in FutureIds :
            /\ futures[f].st = "cancelled" /\ futures[f].polls = <<>> => FutureGuard(f) = 0
            /\ FutureGuard(f) # 0 =>
                  \A i \in EmissionsOf(FutureGuard(f), SIGNPOST_TYPE_INTERVAL_BEGIN) :
                      emissions[i].by = futures[f].polls[1])

\* After the configuration and with tracing enabled, a future was created by
\* one thread and dropped by the other without a poll: nothing was emitted.
C25_Witness ==
    \E f \in FutureIds, t \in Threads :
        /\ Configured /\ native.enabled
        /\ futures[f].st = "cancelled" /\ futures[f].polls = <<>>
        /\ futures[f].fn.message # None
        /\ Done(t, "drop_future") /\ th[t].res = "ok" /\ th[t].arg = <<f>>
        /\ emissions = <<>>


----------------------------------------------------------------------------
\* Nesting.

\* Emission e was made inside the scope that holds guard g.
Inside(e, g) == \E k \in DOMAIN emissions[e].in : emissions[e].in[k] = g

\* Tracing was enabled when guard g was created and has been ever since, as
\* long as g was alive.
EnabledThroughout(g) == guards[g].enNew /\ ~guards[g].sawOff

\* C26: with tracing enabled throughout, every emission a thread makes inside
\* the scope holding a guard (an event, the begin or the end of an inner
\* guard) comes after that guard's IntervalBegin and before its IntervalEnd,
\* and is made by the thread that holds the guard; a guard created inside the
\* scope of another has ended when the outer one has, and its end comes first:
\* guards released by scope exit end in reverse order of their creation.
C26_ProperlyNested ==
    \A g \in DOMAIN guards :
        EnabledThroughout(g) =>
            /\ \A e \in DOMAIN emissions :
                  Inside(e, g) =>
                      /\ emissions[e].by = guards[g].by
                      /\ \E b \in EmissionsOf(g, SIGNPOST_TYPE_INTERVAL_BEGIN) : b < e
                      /\ \A j \in EmissionsOf(g, SIGNPOST_TYPE_INTERVAL_END) : e < j
            /\ Dropped(g) => EmissionsOf(g, SIGNPOST_TYPE_INTERVAL_END) # {}
            /\ \A h \in DOMAIN guards :
                  (/\ Dropped(g)
                   /\ \E b \in EmissionsOf(h, SIGNPOST_TYPE_INTERVAL_BEGIN) : Inside(b, g)) =>
                      /\ Dropped(h)
                      /\ EmissionsOf(h, SIGNPOST_TYPE_INTERVAL_END) # {}
                      /\ \A j \in EmissionsOf(g, SIGNPOST_TYPE_INTERVAL_END),
                            i \in EmissionsOf(h, SIGNPOST_TYPE_INTERVAL_END) : i < j

\* The guard of an instrumented function and a guard bound to a local inside
\* its block have both ended: outer begin, inner begin, inner end, outer end.
C26_Witness ==
    \E g, h \in DOMAIN guards :
        /\ EnabledThroughout(g) /\ Dropped(g) /\ Dropped(h)
        /\ guards[g].message # None /\ guards[h].message = None
        /\ \E b \in EmissionsOf(g, SIGNPOST_TYPE_INTERVAL_BEGIN),
              c \in EmissionsOf(h, SIGNPOST_TYPE_INTERVAL_BEGIN),
              i \in EmissionsOf(h, SIGNPOST_TYPE_INTERVAL_END),
              j \in EmissionsOf(g, SIGNPOST_TYPE_INTERVAL_END) :
              /\ b < c /\ c < i /\ i < j
              /\ Inside(c, g) /\ Inside(i, g) /\ ~Inside(j, h)


----------------------------------------------------------------------------
\* The layer's emissions, span by span.

\* The emissions of one type the layer made in callbacks for span id s.
SpanEmissions(s, type) ==
    { i \in DOMAIN emissions : emissions[i].span = s /\ emissions[i].type = type }

\* C21: every IntervalEnd the layer emits at the close of a span carries no
\* message and the id and name of an IntervalBegin emitted earlier for the
\* same span id, and no two ends answer the same begin: at most one end per
\* created span, whatever the callbacks and the changes of the enabled state.
C21_EndMatchesEarlierBegin ==
    \A s \in SpanIds :
        /\ \A e \in SpanEmissions(s, SIGNPOST_TYPE_INTERVAL_END) :
              /\ emissions[e].msg = None
              /\ \E b \in SpanEmissions(s, SIGNPOST_TYPE_INTERVAL_BEGIN) :
                    /\ b < e
                    /\ emissions[b].id = emissions[e].id
                    /\ emissions[b].name = emissions[e].name
        /\ \A e, f \in SpanEmissions(s, SIGNPOST_TYPE_INTERVAL_END) :
              emissions[e].id = emissions[f].id => e = f


\* "<module-path>::<current-span-name>", either part empty when there is none.
EventName(ev) ==
    (IF ev.module_path = None THEN <<>> ELSE ev.module_path[1])
        \o <<":", ":">>
        \o (IF ev.current_span = None THEN <<>> ELSE ev.current_span[1])

\* The event callback that thread t has ended emitted exactly one Event, named
\* after its module path and current span, with the "message" field as its
\* message and an id that no other emission and no entry of the map carries.
OneEventFreshId(t) ==
    /\ Cardinality(EmissionsBy(t)) = 1
    /\ \A i \in EmissionsBy(t) :
          /\ emissions[i].type = SIGNPOST_TYPE_EVENT
          /\ emissions[i].name = EventName(th[t].arg[1])
          /\ emissions[i].msg = (IF MessageStr \in FieldsOf(th[t].arg[1])
                                 THEN <<(<<"m">>)>> ELSE None)
          /\ \A k \in DOMAIN intervals : intervals[k].id.raw # emissions[i].id
          /\ \A j \in DOMAIN emissions \ {i} : emissions[j].id # emissions[i].id

\* C22 as stated: an event callback that finds the logger disabled does
\* nothing; one that finds it enabled emits exactly one Event with a fresh id,
\* named "<module-path>::<current-span-name>", with the "message" field as
\* message. (Refuted: tracing switched off between the callback's check and
\* emit's own check leaves the callback without an emission.)
C22_AsStated ==
    \A t \in Threads : Done(t, "on_event") /\ th[t].res = "ok" =>
        /\ ~th[t].chk => EmissionsBy(t) = {}
        /\ th[t].chk => OneEventFreshId(t)

\* C22, amended: an event callback that finds the logger disabled at its check
\* does nothing; otherwise it generates a fresh id and emits exactly one Event
\* with that id (distinct from the id of every entry of the span map), named
\* "<module-path>::<current-span-name, or empty>", with the event's "message"
\* field as message, if the logger is still enabled at emit's own check, and
\* nothing if it is not; in every case no step of the callback changes the
\* span map.
C22_EventCallback ==
    /\ [](\A t \in Threads : Done(t, "on_event") /\ th[t].res = "ok" =>
            /\ ~th[t].chk => EmissionsBy(t) = {}
            /\ th[t].chk /\ th[t].en => OneEventFreshId(t)
            /\ th[t].chk /\ ~th[t].en => EmissionsBy(t) = {})
    /\ [][\A t \in Threads :
            th'[t] # th[t] /\ th'[t].op = "on_event" =>
                intervals' = intervals /\ spans' = spans]_vars

\* An event callback made inside a span while another span's interval is in
\* the map has emitted its one Event, named after the current span.
C22_Witness ==
    \E t \in Threads :
        /\ Done(t, "on_event") /\ th[t].res = "ok" /\ th[t].chk /\ th[t].en
        /\ th[t].arg[1].current_span # None
        /\ OneEventFreshId(t)
        /\ intervals # <<>>


\* The close callback that thread t has ended emitted exactly one IntervalEnd
\* for its span, which answers exactly one IntervalBegin: emitted earlier for
\* the same span, with the same id and name, and answered by no other end.
OneEndForOwnBegin(t) ==
    /\ Cardinality(EmissionsBy(t)) = 1
    /\ \A e \in EmissionsBy(t) :
          /\ emissions[e].type = SIGNPOST_TYPE_INTERVAL_END
          /\ emissions[e].span = th[t].arg[1]
          /\ Cardinality({ b \in SpanEmissions(th[t].arg[1], SIGNPOST_TYPE_INTERVAL_BEGIN) :
                             /\ b < e
                             /\ emissions[b].id = emissions[e].id
                             /\ emissions[b].name = emissions[e].name }) = 1
          /\ \A f \in DOMAIN emissions \ {e} :
                emissions[f].id = emissions[e].id
                => emissions[f].type = SIGNPOST_TYPE_INTERVAL_BEGIN

====
